---- MODULE Spec2Model ----
(***************************************************************************)
(* Folonite-AI: the multi-agent task processor (routing, planning, the     *)
(* step loop of processTask), the accessibility-tree cache and the vision  *)
(* state-change / stabilization monitor, modelled from the TypeScript      *)
(* sources.  Strings are TLA+ strings: includes, toLowerCase, substring    *)
(* and the regular expressions of the planner are computed on them.        *)
(***************************************************************************)
EXTENDS Integers, Sequences, FiniteSets, TLC

VARIABLES
  \* ---- MultiAgentProcessor.processTask (multi-agent.processor.ts) ----
  pc,              \* position of the processTask call: idle, loop, done
  goal,            \* the goal argument
  maxSteps,        \* const maxSteps   (line 64)
  maxTokens,       \* const maxTokens  (line 65)
  plan,            \* let plan: the live plan, reassigned on replanning
  loopSteps,       \* the array the for-of loop iterates (plan.steps at loop entry)
  loopIdx,         \* index of the next element the array iterator yields
  executions,      \* const executions: AgentExecution[]
  totalTokens,     \* let totalTokens
  completedSteps,  \* let completedSteps: Set<number>
  stepResults,     \* let stepResults: Map<number, {success, output}>
  history,         \* context.history
  taskResult,      \* the MultiAgentResult returned (<<>> until returned)
  taskOptions,     \* the options argument of the call
  plannerCalled,   \* whether the call asked plannerAgent.createPlan for its plan
  replanned,       \* whether the latest executed step made shouldReplan true
  executorOutcome, \* what the executor awaited by the latest executeStep did
  \* ---- AccessibilityService (accessibility.service.ts) ----
  now,             \* Date.now(), in ms
  cache,           \* private cache: None (null) or Some([result, expiresAt])
  callPc,          \* per getUiTree call: idle, primary, wmctrl, returnedCached,
                   \* returned, raised
  callUseCache,    \* per call: the useCache argument
  callResult,      \* per call: the UiTreeResult handed back (None before)
  primaryOutcome,  \* per call: what the dump_ax_tree.py run did (None before)
  wmctrlOutcome,   \* per call: what the wmctrl run did (None before)
  cacheTrace,      \* history of the slot: per call, whether clearCache ran while
                   \* its fetch was in flight; whether the slot was filled by
                   \* such a fetch
  \* ---- VisionService (computer-use.service.ts) ----
  previousState,   \* private previousState: None (null) or Some([elements, timestamp])
  detected,        \* what detectElements returned to the latest detectStateChanges
  detectReturn,    \* what the latest detectStateChanges returned (None before)
  waitPc,          \* position of the waitForStabilization call: idle, polling,
                   \* sleeping, done
  waitArgs,        \* its arguments [timeoutMs, stablePeriodMs]
  startTime,       \* const startTime
  lastChangeTime,  \* let lastChangeTime
  lastState,       \* let lastState (None for null)
  waitReturn,      \* the {stabilized, finalState} returned (None before)
  waitTrace,       \* history of the call: when its latest poll completed, when
                   \* its latest poll with a significant change completed, when
                   \* it returned, and its latest poll whose detector failed
                   \* (when, and how many elements the baseline held)
  \* ---- calls of the side-effect-free methods ----
  pureCall,        \* the method called and its arguments (None when no call)
  pureReturn       \* the value it returned (None when no call)

procVars == <<pc, goal, maxSteps, maxTokens, plan, loopSteps, loopIdx, executions,
              totalTokens, completedSteps, stepResults, history, taskResult,
              taskOptions, plannerCalled, replanned, executorOutcome>>

cacheVars == <<now, cache, callPc, callUseCache, callResult, primaryOutcome,
               wmctrlOutcome, cacheTrace>>

cacheSlots == <<cache, callPc, callUseCache, callResult, primaryOutcome, wmctrlOutcome,
                cacheTrace>>

detectVars == <<previousState, detected, detectReturn>>

waitVars == <<waitPc, waitArgs, startTime, lastChangeTime, lastState, waitReturn,
              waitTrace>>

visionVars == <<detectVars, waitVars>>

pureVars == <<pureCall, pureReturn>>

vars == <<procVars, cacheVars, visionVars, pureVars>>

\* ------------------------------------------------------------------------
\* Optional values (undefined / absent property): None, Some(x)
\* ------------------------------------------------------------------------
None == <<>>
Some(x) == <<x>>
IsSome(o) == o # <<>>
Get(o) == o[1]

Min(a, b) == IF a <= b THEN a ELSE b

\* ------------------------------------------------------------------------
\* String helpers (JavaScript String.prototype semantics)
\* ------------------------------------------------------------------------
\* s.substring(from, to) with 0-based from, exclusive to, clamped to the length
Substring(s, from, to) == SubSeq(s, Min(from, Len(s)) + 1, Min(to, Len(s)))

\* the 0-based offsets at which k occurs in s
Occ(s, k) == {i \in 0..(Len(s) - Len(k)) : SubSeq(s, i + 1, i + Len(k)) = k}

\* s.includes(k)
Includes(s, k) == Occ(s, k) # {}

UpperChars == <<"A","B","C","D","E","F","G","H","I","J","K","L","M",
                "N","O","P","Q","R","S","T","U","V","W","X","Y","Z">>
LowerChars == <<"a","b","c","d","e","f","g","h","i","j","k","l","m",
                "n","o","p","q","r","s","t","u","v","w","x","y","z">>

LowerChar(c) ==
  IF \E i \in 1..26 : UpperChars[i] = c
  THEN LowerChars[CHOOSE i \in 1..26 : UpperChars[i] = c]
  ELSE c

RECURSIVE ToLowerCase(_)
ToLowerCase(s) ==
  IF s = "" THEN ""
  ELSE LowerChar(SubSeq(s, 1, 1)) \o ToLowerCase(SubSeq(s, 2, Len(s)))

WhiteSpace == {" ", "\t", "\n"}
IsSpace(c) == c \in WhiteSpace

\* parts.join(sep)
RECURSIVE Join(_, _)
Join(parts, sep) ==
  IF parts = <<>> THEN ""
  ELSE IF Len(parts) = 1 THEN parts[1]
  ELSE parts[1] \o sep \o Join(Tail(parts), sep)

\* numbers.join(', ')
RECURSIVE JoinNums(_)
JoinNums(ns) ==
  IF ns = <<>> THEN ""
  ELSE IF Len(ns) = 1 THEN ToString(ns[1])
  ELSE ToString(ns[1]) \o ", " \o JoinNums(Tail(ns))

\* the elements of a sequence
Range(s) == {s[i] : i \in 1..Len(s)}

\* ------------------------------------------------------------------------
\* Regular expressions of the planner: alternatives are sequences of literal
\* parts separated by ".*" (any run of characters other than a line break).
\* ------------------------------------------------------------------------
NoLineBreak(s, from, to) == \A i \in (from + 1)..to : SubSeq(s, i, i) # "\n"

\* parts[1] .* parts[2] .* ... matches in s at or after offset from, the gaps
\* between the parts holding no line break
RECURSIVE MatchGap(_, _, _)
MatchGap(s, parts, from) ==
  IF parts = <<>> THEN TRUE
  ELSE \E i \in Occ(s, parts[1]) :
         /\ i >= from
         /\ NoLineBreak(s, from, i)
         /\ MatchGap(s, Tail(parts), i + Len(parts[1]))

DotStar(s, parts) ==
  \E i \in Occ(s, parts[1]) : MatchGap(s, Tail(parts), i + Len(parts[1]))

\* a \s+ b
SpacedPair(s, a, b) ==
  \E i \in Occ(s, a), j \in Occ(s, b) :
     /\ j > i + Len(a)
     /\ \A k \in (i + Len(a) + 1)..j : IsSpace(SubSeq(s, k, k))

\* ------------------------------------------------------------------------
\* AgentOrchestrator (agent-orchestrator.service.ts)
\* ------------------------------------------------------------------------
AgentTypes == {"planner", "terminal", "desktop", "browser", "code", "vision"}

\* private agentCapabilities (type and triggers; the other fields are not read
\* by routeTask)
agentCapabilities == <<
  [type |-> "planner",
   triggers |-> <<"plan", "break down", "orchestrate", "multi-step", "complex">>],
  [type |-> "terminal",
   triggers |-> <<"file", "directory", "folder", "read", "write", "edit", "execute",
                  "run", "command", "terminal", "shell", "bash", "npm", "git", "ls",
                  "cat", "grep">>],
  [type |-> "desktop",
   triggers |-> <<"click", "type", "screenshot", "screen", "desktop", "ui", "button",
                  "window", "mouse", "keyboard", "scroll", "open app", "application">>],
  [type |-> "browser",
   triggers |-> <<"web", "browser", "website", "url", "http", "html", "dom", "navigate",
                  "click link", "form", "page">>],
  [type |-> "code",
   triggers |-> <<"code", "function", "class", "refactor", "analyze code", "understand",
                  "review", "optimize", "debug", "error">>],
  [type |-> "vision",
   triggers |-> <<"image", "picture", "visual", "look at", "analyze image", "ocr",
                  "detect", "elements">>] >>

\* the score of one capability: one point per trigger the lowered goal includes
TriggerScore(cap, goalLower) ==
  Cardinality({i \in 1..Len(cap.triggers) :
                 Includes(goalLower, ToLowerCase(cap.triggers[i]))})

\* mutant of SortByScoreDesc: the scores stay in table order
SortByScoreSkipped(scores) == scores

\* scores.sort((a, b) => b.score - a.score): descending, stable
RECURSIVE SortByScoreDesc(_)
SortByScoreDesc(scores) ==
  IF scores = <<>> THEN <<>>
  ELSE LET n == Len(scores)
           first == CHOOSE i \in 1..n :
                      /\ \A j \in 1..n : scores[j].score <= scores[i].score
                      /\ \A j \in 1..(i - 1) : scores[j].score < scores[i].score
       IN <<scores[first]>>
            \o SortByScoreDesc(SubSeq(scores, 1, first - 1) \o SubSeq(scores, first + 1, n))

\* Math.ceil(goal.length / 50)
EstimatedSteps(g) == (Len(g) + 49) \div 50

\* agentCapabilities.map(cap => ({type, score})), in table order
RECURSIVE ScoreAll(_, _)
ScoreAll(caps, goalLower) ==
  IF caps = <<>> THEN <<>>
  ELSE << [type |-> caps[1].type, score |-> TriggerScore(caps[1], goalLower)] >>
         \o ScoreAll(Tail(caps), goalLower)

routeTask(g) ==
  LET positive(e) == e.score > 0
  IN LET sorted == SortByScoreDesc(ScoreAll(agentCapabilities, ToLowerCase(g)))
     IN IF sorted[1].score = 0
        THEN [primaryAgent |-> "planner", supportingAgents |-> None,
              estimatedSteps |-> 3]
        ELSE LET supporting == SelectSeq(SubSeq(sorted, 2, 3), positive)
             IN [primaryAgent |-> sorted[1].type,
                 supportingAgents |->
                   IF Len(supporting) > 0
                   THEN Some([i \in 1..Len(supporting) |-> supporting[i].type])
                   ELSE None,
                 estimatedSteps |-> EstimatedSteps(g)]

\* Array.prototype.slice(-n): the last n elements
SliceLast(seq, n) == SubSeq(seq, IF Len(seq) > n THEN Len(seq) - n + 1 ELSE 1, Len(seq))

\* the agents whose actions createAgentContext keeps for a type (lines
\* 198-244); the planner keeps them all
HistoryWhitelist(agentType) ==
  IF agentType \in {"terminal", "code"} THEN {"terminal", "code"}
  ELSE IF agentType \in {"desktop", "vision"} THEN {"desktop", "vision"}
  ELSE IF agentType = "browser" THEN {"browser"}
  ELSE IF agentType = "planner" THEN AgentTypes
  ELSE {}

\* private isCodeFile, lines 320-333
CodeExtensions ==
  {".ts", ".tsx", ".js", ".jsx", ".json", ".py", ".rb", ".go", ".rs", ".java",
   ".cpp", ".c", ".h", ".hpp", ".cs", ".php", ".swift", ".kt", ".scala",
   ".html", ".css", ".scss", ".sass", ".yml", ".yaml", ".toml", ".xml",
   ".sh", ".bash", ".zsh", ".fish", ".md", ".markdown"}

isCodeFile(path) ==
  LET dots == Occ(path, ".")
      lastIndexOf == IF dots = {} THEN 0
                     ELSE CHOOSE i \in dots : \A j \in dots : j <= i
  IN ToLowerCase(SubSeq(path, lastIndexOf + 1, Len(path))) \in CodeExtensions

\* createAgentContext: optimized.files, lines 190, 203, 228-230 and 243
ContextFiles(agentType, files) ==
  LET IsCode(f) == isCodeFile(f.path)
  IN IF agentType = "terminal" THEN SliceLast(files, 10)
     ELSE IF agentType = "code" THEN SelectSeq(files, IsCode)
     ELSE IF agentType = "planner" THEN files
     ELSE <<>>

\* mutant of createAgentContext: the history is cut to its last 5 entries
\* before it is filtered
createAgentContextCutFirst(agentType, fullContext) ==
  LET Relevant(h) == h.agent \in HistoryWhitelist(agentType)
  IN [taskId |-> fullContext.taskId,
      goal |-> fullContext.goal,
      history |-> SelectSeq(SliceLast(fullContext.history, 5), Relevant),
      files |-> ContextFiles(agentType, fullContext.files),
      accumulatedKnowledge |->
        IF agentType = "planner" THEN fullContext.accumulatedKnowledge
        ELSE SliceLast(fullContext.accumulatedKnowledge, 5)]

\* createAgentContext, lines 182-252 (taskId, goal, history, files and
\* accumulatedKnowledge of the context)
createAgentContext(agentType, fullContext) ==
  LET Relevant(h) == h.agent \in HistoryWhitelist(agentType)
  IN [taskId |-> fullContext.taskId,
      goal |-> fullContext.goal,
      history |-> SliceLast(SelectSeq(fullContext.history, Relevant), 5),
      files |-> ContextFiles(agentType, fullContext.files),
      accumulatedKnowledge |->
        IF agentType = "planner" THEN fullContext.accumulatedKnowledge
        ELSE SliceLast(fullContext.accumulatedKnowledge, 5)]

\* ------------------------------------------------------------------------
\* PlannerAgent (planner.agent.ts)
\* ------------------------------------------------------------------------
Digits == {"0","1","2","3","4","5","6","7","8","9"}
IsWordChar(c) == c \in (Range(UpperChars) \cup Range(LowerChars) \cup Digits \cup {"_"})

\* the length of the longest prefix of s whose characters all satisfy, or all
\* fail, the test of the class ("word" for \w, "space" for \s) that its first
\* character passes or fails
PrefixRun(s, class) ==
  LET InClass(c) == IF class = "word" THEN IsWordChar(c) ELSE IsSpace(c)
      first == InClass(SubSeq(s, 1, 1))
  IN CHOOSE n \in 1..Len(s) :
       /\ \A i \in 1..n : InClass(SubSeq(s, i, i)) = first
       /\ (n = Len(s) \/ InClass(SubSeq(s, n + 1, n + 1)) # first)

ActionWords == {"edit", "modify", "update", "fix", "create", "make", "add", "remove",
                "delete", "find", "search", "get", "show"}

\* goal.replace(/\b(edit|modify|...|show)\b/gi, ''): a maximal run of word
\* characters that is an action word is removed
RECURSIVE RemoveActionWords(_)
RemoveActionWords(s) ==
  IF s = "" THEN ""
  ELSE LET n == PrefixRun(s, "word")
           run == SubSeq(s, 1, n)
           rest == RemoveActionWords(SubSeq(s, n + 1, Len(s)))
       IN IF IsWordChar(SubSeq(s, 1, 1)) /\ ToLowerCase(run) \in ActionWords
          THEN rest
          ELSE run \o rest

\* s.replace(/\s+/g, ' ')
RECURSIVE CollapseSpaces(_)
CollapseSpaces(s) ==
  IF s = "" THEN ""
  ELSE LET n == PrefixRun(s, "space")
           rest == CollapseSpaces(SubSeq(s, n + 1, Len(s)))
       IN IF IsSpace(SubSeq(s, 1, 1)) THEN " " \o rest
          ELSE SubSeq(s, 1, n) \o rest

\* s.trim()
RECURSIVE Trim(_)
Trim(s) ==
  IF s = "" THEN ""
  ELSE IF IsSpace(SubSeq(s, 1, 1)) THEN Trim(SubSeq(s, 2, Len(s)))
  ELSE IF IsSpace(SubSeq(s, Len(s), Len(s))) THEN Trim(SubSeq(s, 1, Len(s) - 1))
  ELSE s

extractTopic(g) == Substring(Trim(CollapseSpaces(RemoveActionWords(g))), 0, 50)

\* goal.match(/(https?:\/\/[^\s]+)/)?.[1]: the leftmost match, taken up to the
\* next white space; None when there is no match
extractUrl(g) ==
  LET starts == {i \in Occ(g, "http") :
                   \E k \in {i + 4, i + 5} :
                      /\ (k = i + 5 => SubSeq(g, i + 5, i + 5) = "s")
                      /\ SubSeq(g, k + 1, k + 3) = "://"
                      /\ k + 3 < Len(g)
                      /\ ~IsSpace(SubSeq(g, k + 4, k + 4))}
  IN IF starts = {} THEN None
     ELSE LET i == CHOOSE a \in starts : \A b \in starts : a <= b
              rest == SubSeq(g, i + 1, Len(g))
              n == PrefixRun(rest, "space")
          IN Some(SubSeq(rest, 1, n))

\* private analyzeComplexity
analyzeComplexity(g) ==
  LET l == ToLowerCase(g)
      indicators == <<
        SpacedPair(l, "and", "then") \/ SpacedPair(l, "after", "that")
          \/ Includes(l, "next"),
        \E w \in {"edit", "update", "delete"} : DotStar(l, <<"find", "and", w>>),
        DotStar(l, <<"search", "for", "in", "then">>),
        Includes(l, "compare") \/ DotStar(l, <<"analyze", "and", "report">>),
        Includes(l, "multiple") \/ Includes(l, "several")
          \/ DotStar(l, <<"all", "files">>),
        DotStar(l, <<"create", "test", "implement">>) >>
      matched == Cardinality({i \in 1..Len(indicators) : indicators[i]})
      uniqueAgents == {t \in {"terminal", "desktop", "browser", "code", "vision"} :
                         Includes(l, t)}
  IN Min(1 + matched + Cardinality(uniqueAgents), 10)

\* lower.match(/a|b|c/) for literal alternatives
MatchesAny(l, words) == \E w \in words : Includes(l, w)

\* private determineAgent
determineAgent(g) ==
  LET l == ToLowerCase(g)
  IN IF MatchesAny(l, {"file", "directory", "read", "write", "edit", "command"})
       THEN "terminal"
     ELSE IF MatchesAny(l, {"click", "type", "screen", "desktop", "ui", "button"})
       THEN "desktop"
     ELSE IF MatchesAny(l, {"web", "browser", "site", "url", "http", "html"})
       THEN "browser"
     ELSE IF MatchesAny(l, {"code", "function", "class", "refactor"})
       THEN "code"
     ELSE IF MatchesAny(l, {"image", "visual", "look", "ocr"})
       THEN "vision"
     ELSE "terminal"

\* a PlanStep (expectedOutput and verification are texts no operation reads)
PlanStep(id, agent, instruction, dependsOn) ==
  [id |-> id, agent |-> agent, instruction |-> instruction,
   dependsOn |-> dependsOn, maxRetries |-> None]

\* generateSteps, lines 147-242: the steps of the first pattern the goal
\* matches
PatternSteps(g) ==
  LET l == ToLowerCase(g)
      url == extractUrl(g)
  IN IF MatchesAny(l, {"edit", "modify", "update", "refactor"})
          \/ DotStar(l, <<"fix", "code">>)
     THEN << PlanStep(1, "terminal", "Find files related to: " \o extractTopic(g), None),
             PlanStep(2, "code", "Analyze code and propose changes for: " \o g,
                      Some(<<1>>)),
             PlanStep(3, "terminal", "Apply the proposed changes", Some(<<2>>)) >>
     ELSE IF MatchesAny(l, {"web", "browser", "site", "url", "http"})
     THEN << PlanStep(1, "browser",
                      "Navigate to: " \o (IF IsSome(url) /\ Get(url) # ""
                                          THEN Get(url) ELSE "relevant URL"),
                      None),
             PlanStep(2, "browser", "Extract: " \o extractTopic(g), Some(<<1>>)) >>
     ELSE IF MatchesAny(l, {"click", "type", "screen", "desktop", "app", "window",
                            "button"})
     THEN << PlanStep(1, "desktop", "Take screenshot and analyze UI state", None),
             PlanStep(2, "desktop", g, Some(<<1>>)) >>
     ELSE IF MatchesAny(l, {"find", "locate"}) \/ DotStar(l, <<"search", "file">>)
     THEN << PlanStep(1, "terminal", g, None) >>
     ELSE << PlanStep(1, determineAgent(g), g, None) >>

\* mutant of generateSteps: the verification step also lists its own id
generateStepsSelfDependent(g, complexity) ==
  LET steps == PatternSteps(g)
  IN IF complexity > 3
     THEN Append(steps,
                 PlanStep(Len(steps) + 1, "planner", "Verify completion: " \o g,
                          Some([i \in 1..Len(steps) + 1 |-> i])))
     ELSE steps

\* private generateSteps
generateSteps(g, complexity) ==
  LET steps == PatternSteps(g)
  IN IF complexity > 3
     THEN Append(steps,
                 PlanStep(Len(steps) + 1, "planner", "Verify completion: " \o g,
                          Some([i \in 1..Len(steps) |-> steps[i].id])))
     ELSE steps

RECURSIVE SumSeq(_)
SumSeq(ns) == IF ns = <<>> THEN 0 ELSE ns[1] + SumSeq(Tail(ns))

\* private estimatePlanTokens, in quarter tokens (instruction.length / 4 is a
\* fraction): 4 * (100 + sum(length / 4 + 50))
estimatePlanTokens(steps) ==
  400 + SumSeq([i \in 1..Len(steps) |-> Len(steps[i].instruction) + 200])

\* private estimateStepTime
estimateStepTime(step) ==
  CASE step.agent = "planner" -> 500
    [] step.agent = "terminal" -> 300
    [] step.agent = "desktop" -> 800
    [] step.agent = "browser" -> 1000
    [] step.agent = "code" -> 600
    [] step.agent = "vision" -> 700
    [] OTHER -> 500

\* private generateVerificationCriteria
generateVerificationCriteria(g) ==
  LET l == ToLowerCase(g)
      criteria ==
        (IF Includes(l, "file") THEN <<"File operations completed successfully">>
         ELSE <<>>)
        \o (IF Includes(l, "code") THEN <<"Code changes are syntactically correct">>
            ELSE <<>>)
        \o (IF Includes(l, "edit") THEN <<"Edits match the requested changes">>
            ELSE <<>>)
        \o (IF Includes(l, "search") THEN <<"Search returned relevant results">>
            ELSE <<>>)
        \o (IF Includes(l, "click") \/ Includes(l, "type")
            THEN <<"UI actions executed successfully">> ELSE <<>>)
  IN IF criteria = <<>> THEN <<"Task completed as requested">> ELSE criteria

createPlan(g) ==
  LET complexity == analyzeComplexity(g)
      steps == generateSteps(g, complexity)
  IN [goal |-> g,
      steps |-> steps,
      estimatedTokens |-> estimatePlanTokens(steps),
      estimatedTime |-> SumSeq([i \in 1..Len(steps) |-> estimateStepTime(steps[i])]),
      parallelizable |-> complexity > 3,
      verificationCriteria |-> generateVerificationCriteria(g)]

\* the first step of the plan with the given id: steps.find(s => s.id === id)
FindStep(steps, id) ==
  LET hits == {i \in 1..Len(steps) : steps[i].id = id}
  IN IF hits = {} THEN None
     ELSE Some(steps[CHOOSE i \in hits : \A j \in hits : i <= j])

\* refinePlan: the dependencies of a step whose recorded result is a failure
FailedDeps(step, results) ==
  IF IsSome(step.dependsOn)
  THEN LET failed(dep) == dep \in DOMAIN results /\ ~results[dep].success
       IN Some(SelectSeq(Get(step.dependsOn), failed))
  ELSE None

\* mutant of AdjustStep: a step that already carries a note is left alone
AdjustStepOnce(step, results) ==
  LET failedDeps == FailedDeps(step, results)
  IN IF IsSome(failedDeps) /\ Len(Get(failedDeps)) > 0
        /\ ~Includes(step.instruction, "(Note: Step ")
     THEN [step EXCEPT !.instruction =
             step.instruction \o " (Note: Step " \o JoinNums(Get(failedDeps))
               \o " had issues, proceed with caution)"]
     ELSE step

\* refinePlan: the adjusted copy of a remaining step
AdjustStep(step, results) ==
  LET failedDeps == FailedDeps(step, results)
  IN IF IsSome(failedDeps) /\ Len(Get(failedDeps)) > 0
     THEN [step EXCEPT !.instruction =
             step.instruction \o " (Note: Step " \o JoinNums(Get(failedDeps))
               \o " had issues, proceed with caution)"]
     ELSE step

refinePlan(currentPlan, completed, results) ==
  LET isDone(st) == st.id \in completed
      notDone(st) == st.id \notin completed
      remainingSteps == SelectSeq(currentPlan.steps, notDone)
      adjustedSteps == [i \in 1..Len(remainingSteps) |->
                          AdjustStep(remainingSteps[i], results)]
  IN [currentPlan EXCEPT !.steps = SelectSeq(currentPlan.steps, isDone) \o adjustedSteps]

\* a falsy maxRetries: undefined or 0
NoRetries(step) == ~IsSome(step.maxRetries) \/ Get(step.maxRetries) = 0

\* shouldReplan: r.metadata?.tokenEstimate || 0 summed over the results, in
\* quarter tokens like plan.estimatedTokens
ActualTokens(results) ==
  LET ids == DOMAIN results
      tok(id) == IF IsSome(results[id].metadata) /\ IsSome(Get(results[id].metadata).tokenEstimate)
                 THEN Get(Get(results[id].metadata).tokenEstimate) ELSE 0
      sum[S \in SUBSET ids] ==
        IF S = {} THEN 0
        ELSE LET x == CHOOSE y \in S : TRUE IN tok(x) + sum[S \ {x}]
  IN 4 * sum[ids]

shouldReplan(p, results) ==
  \/ \E id \in DOMAIN results :
        /\ ~results[id].success
        /\ IsSome(FindStep(p.steps, id))
        /\ NoRetries(Get(FindStep(p.steps, id)))
  \/ ActualTokens(results) > p.estimatedTokens * 2

\* ------------------------------------------------------------------------
\* MultiAgentProcessor (multi-agent.processor.ts)
\* ------------------------------------------------------------------------
DefaultMaxSteps == 10
DefaultMaxTokens == 10000

\* options?.maxSteps || 10: an omitted or falsy (0) value gives the default
OrDefault(opt, default) == IF IsSome(opt) /\ Get(opt) # 0 THEN Get(opt) ELSE default

\* the agents whose executor is an awaited collaborator
ExecutorAgents == {"terminal", "desktop", "browser"}

\* formatAgentOutput: the present, non-empty parts joined by line breaks
formatAgentOutput(result) ==
  Join((IF result.output # "" THEN <<result.output>> ELSE <<>>)
         \o (IF result.error # "" THEN <<"Error: " \o result.error>> ELSE <<>>),
       "\n")

\* mutant of PlannerResult: the planner case reports a failed inspection
PlannerResultFailed ==
  [kind |-> "return", success |-> FALSE, output |-> "", error |-> "",
   tokenEstimate |-> Some(100), message |-> ""]

\* the planner case of executeStep: a fixed successful result
PlannerResult ==
  [kind |-> "return", success |-> TRUE, output |-> "", error |-> "",
   tokenEstimate |-> Some(100), message |-> ""]

\* mutant of SwitchOutcome: a code step is handed to the terminal executor
SwitchOutcomeCodeDispatched(step, outcome) ==
  IF step.agent \in ExecutorAgents \cup {"code"} THEN outcome
  ELSE IF step.agent = "planner" THEN PlannerResult
  ELSE [kind |-> "throw", success |-> FALSE, output |-> "", error |-> "",
        tokenEstimate |-> None, message |-> "Unknown agent type: " \o step.agent]

\* what the switch of executeStep yields for a step, given what the awaited
\* executor did (outcome); code and vision reach the default case and throw
SwitchOutcome(step, outcome) ==
  IF step.agent \in ExecutorAgents THEN outcome
  ELSE IF step.agent = "planner" THEN PlannerResult
  ELSE [kind |-> "throw", success |-> FALSE, output |-> "", error |-> "",
        tokenEstimate |-> None, message |-> "Unknown agent type: " \o step.agent]

\* result.metadata?.tokenEstimate || 100
TokensUsed(result) ==
  IF IsSome(result.tokenEstimate) /\ Get(result.tokenEstimate) # 0
  THEN Get(result.tokenEstimate) ELSE 100

\* mutant of executeStep: the catch block records the step as partial and
\* drops the error message
executeStepDropsError(step, outcome) ==
  LET result == SwitchOutcome(step, outcome)
  IN [stepId |-> step.id, agent |-> step.agent, instruction |-> step.instruction,
      result |-> IF result.kind = "return" /\ result.success THEN "success"
                 ELSE IF result.kind = "return" THEN "failure" ELSE "partial",
      output |-> formatAgentOutput(result),
      tokensUsed |-> IF result.kind = "return" THEN TokensUsed(result) ELSE 50]

\* private executeStep
executeStep(step, outcome) ==
  LET result == SwitchOutcome(step, outcome)
  IN IF result.kind = "return"
     THEN [stepId |-> step.id, agent |-> step.agent, instruction |-> step.instruction,
           result |-> IF result.success THEN "success" ELSE "failure",
           output |-> formatAgentOutput(result),
           tokensUsed |-> TokensUsed(result)]
     ELSE [stepId |-> step.id, agent |-> step.agent, instruction |-> step.instruction,
           result |-> "failure",
           output |-> "Error: " \o result.message,
           tokensUsed |-> 50]

\* private synthesizeOutput
synthesizeOutput(g, execs) ==
  LET ok(e) == e.result = "success"
      ko(e) == e.result = "failure"
      successful == SelectSeq(execs, ok)
      failed == SelectSeq(execs, ko)
  IN Join(<<"Task: " \o g,
            "Steps: " \o ToString(Len(successful)) \o "/" \o ToString(Len(execs))
              \o " succeeded",
            "">>
          \o (IF Len(successful) > 0
              THEN <<"Results:">> \o
                   [i \in 1..Len(successful) |->
                      "  [" \o successful[i].agent \o "] "
                        \o Substring(successful[i].output, 0, 200)
                        \o (IF Len(successful[i].output) > 200 THEN "..." ELSE "")]
              ELSE <<>>)
          \o (IF Len(failed) > 0
              THEN <<"\nIssues:">> \o
                   [i \in 1..Len(failed) |->
                      "  [" \o failed[i].agent \o "] " \o Substring(failed[i].output, 0, 100)]
              ELSE <<>>),
          "\n")

\* the condition under which processTask asks the planner for a plan
\* mutant of NeedsPlan: supporting agents alone do not call for a plan
NeedsPlanMultiStepOnly(options, routing) ==
  /\ options.requirePlan # Some(FALSE)
  /\ routing.estimatedSteps > 1

\* line 83
NeedsPlan(options, routing) ==
  /\ options.requirePlan # Some(FALSE)
  /\ (routing.estimatedSteps > 1 \/ IsSome(routing.supportingAgents))

\* the single-step plan processTask synthesizes otherwise
SingleStepPlan(g, routing) ==
  [goal |-> g,
   steps |-> << PlanStep(1, routing.primaryAgent, g, None) >>,
   estimatedTokens |-> 4 * 500,
   estimatedTime |-> 1000,
   parallelizable |-> FALSE,
   verificationCriteria |-> <<"Task completed">>]

\* mutant of MultiAgentResult: success also wants every plan step executed
MultiAgentResultAllSteps(p, execs, tokens, g) ==
  [success |-> /\ \A i \in 1..Len(execs) : execs[i].result = "success"
               /\ Len(execs) = Len(p.steps),
   plan |-> p,
   executions |-> execs,
   finalOutput |-> synthesizeOutput(g, execs),
   totalTokens |-> tokens]

\* the MultiAgentResult of the return statement
MultiAgentResult(p, execs, tokens, g) ==
  [success |-> \A i \in 1..Len(execs) : execs[i].result = "success",
   plan |-> p,
   executions |-> execs,
   finalOutput |-> synthesizeOutput(g, execs),
   totalTokens |-> tokens]

\* ---- inputs of processTask ----
Goals ==
  { "",
    "Click the Submit button",
    "edit the config file to fix the bug",
    "edit code",
    "find and edit multiple code next",
    "open http://x.io and then compare several web pages" }

\* options: each of requirePlan, maxSteps, maxTokens given or omitted
TaskOptions ==
  { [requirePlan |-> r, maxSteps |-> m, maxTokens |-> None] :
      r \in {None, Some(FALSE)}, m \in {None, Some(0), Some(1), Some(2)} }
  \cup { [requirePlan |-> Some(TRUE), maxSteps |-> None, maxTokens |-> t] :
           t \in {Some(0), Some(150)} }

\* what an awaited executor (terminal, desktop, browser) can do: return a
\* result, successful or not, with or without a token estimate, or throw
ExecOutcomes ==
  { [kind |-> "return", success |-> TRUE, output |-> "ok", error |-> "",
     tokenEstimate |-> None, message |-> ""],
    [kind |-> "return", success |-> FALSE, output |-> "", error |-> "exit 1",
     tokenEstimate |-> Some(200), message |-> ""],
    [kind |-> "return", success |-> TRUE, output |-> "done", error |-> "",
     tokenEstimate |-> Some(1200), message |-> ""],
    [kind |-> "throw", success |-> FALSE, output |-> "", error |-> "",
     tokenEstimate |-> None, message |-> "ECONNREFUSED"] }

\* plans an injected planner may hand to processTask: steps 1..n in list
\* order, each with no dependsOn or with its neighbours as dependencies
MaxStubLen == 3

StubDeps(i, n) ==
  {None}
  \cup (IF i > 1 THEN {Some(<<i - 1>>)} ELSE {})
  \cup (IF i < n THEN {Some(<<i + 1>>)} ELSE {})
  \cup (IF i > 1 /\ i < n THEN {Some(<<i - 1, i + 1>>)} ELSE {})

\* a plan of six independent steps, each with retries
LongStubPlan ==
  [goal |-> "",
   steps |-> [i \in 1..6 |->
                [id |-> i, agent |-> "terminal", instruction |-> "step " \o ToString(i),
                 dependsOn |-> None, maxRetries |-> Some(2)]],
   estimatedTokens |-> 4 * 500,
   estimatedTime |-> 300 * 6,
   parallelizable |-> FALSE,
   verificationCriteria |-> <<"Task completed as requested">>]

StubPlans ==
  {LongStubPlan} \cup
  UNION { { [goal |-> "",
             steps |-> [i \in 1..n |->
                          [id |-> i, agent |-> "terminal",
                           instruction |-> "step " \o ToString(i),
                           dependsOn |-> deps[i], maxRetries |-> r]],
             estimatedTokens |-> 4 * 500,
             estimatedTime |-> 300 * n,
             parallelizable |-> FALSE,
             verificationCriteria |-> <<"Task completed as requested">>] :
            deps \in {d \in [1..n -> UNION {StubDeps(i, n) : i \in 1..n}] :
                        \A i \in 1..n : d[i] \in StubDeps(i, n)},
            r \in {None, Some(2)} } :
          n \in 1..MaxStubLen }

\* ---- the processTask call ----
ProcInit ==
  /\ pc = "idle"
  /\ goal = ""
  /\ taskOptions = [requirePlan |-> None, maxSteps |-> None, maxTokens |-> None]
  /\ plannerCalled = FALSE
  /\ replanned = FALSE
  /\ maxSteps = DefaultMaxSteps
  /\ maxTokens = DefaultMaxTokens
  /\ plan = SingleStepPlan("", routeTask(""))
  /\ loopSteps = <<>>
  /\ loopIdx = 1
  /\ executions = <<>>
  /\ totalTokens = 0
  /\ completedSteps = {}
  /\ stepResults = <<>>
  /\ history = <<>>
  /\ taskResult = None
  /\ executorOutcome = None

\* processTask, lines 63-108: options, context, routing, the plan, and the
\* entry into the for-of loop over plan.steps
EnterLoop(g, options, p, planned) ==
  /\ pc = "idle"
  /\ pc' = "loop"
  /\ goal' = g
  /\ taskOptions' = options
  /\ plannerCalled' = planned
  /\ replanned' = FALSE
  /\ maxSteps' = OrDefault(options.maxSteps, DefaultMaxSteps)
  /\ maxTokens' = OrDefault(options.maxTokens, DefaultMaxTokens)
  /\ plan' = p
  /\ loopSteps' = p.steps
  /\ loopIdx' = 1
  /\ executions' = <<>>
  /\ totalTokens' = 0
  /\ completedSteps' = {}
  /\ stepResults' = <<>>
  /\ history' = <<>>
  /\ taskResult' = None
  /\ executorOutcome' = None
  /\ UNCHANGED <<cacheVars, visionVars, pureVars>>

\* processTask with the repository's PlannerAgent
ProcessTask(g, options) ==
  LET routing == routeTask(g)
  IN EnterLoop(g, options,
               IF NeedsPlan(options, routing) THEN createPlan(g)
               ELSE SingleStepPlan(g, routing),
               NeedsPlan(options, routing))

\* processTask with an injected planner that returns the plan p
ProcessTaskPlanned(options, p) ==
  /\ NeedsPlan(options, routeTask(p.goal))
  /\ EnterLoop(p.goal, options, p, TRUE)

\* the step the loop is at
AtStep == pc = "loop" /\ loopIdx <= Len(loopSteps)
CurrentStep == loopSteps[loopIdx]

\* mutant of DepsMet: some dependency completed is enough
DepsMetSome(step, completed) ==
  IsSome(step.dependsOn) =>
    \E i \in 1..Len(Get(step.dependsOn)) : Get(step.dependsOn)[i] \in completed

\* lines 112-113: step.dependsOn.every(d => completedSteps.has(d))
DepsMet(step, completed) ==
  IsSome(step.dependsOn) =>
    \A i \in 1..Len(Get(step.dependsOn)) : Get(step.dependsOn)[i] \in completed

\* line 121
LimitsReached(execs, tokens, ms, mt) == Len(execs) >= ms \/ tokens >= mt

\* lines 151-161
Return ==
  /\ taskResult' = Some(MultiAgentResult(plan, executions, totalTokens, goal))
  /\ pc' = "done"
  /\ UNCHANGED <<goal, maxSteps, maxTokens, plan, loopSteps, loopIdx, executions,
                 totalTokens, completedSteps, stepResults, history, taskOptions, plannerCalled,
                 replanned, executorOutcome, cacheVars, visionVars, pureVars>>

\* mutant of SkipStep: the step is put back at the end of the list, to be
\* tried again once the others have run
SkipStepDeferred ==
  /\ AtStep
  /\ ~DepsMet(CurrentStep, completedSteps)
  /\ loopSteps' = SubSeq(loopSteps, 1, loopIdx - 1)
                    \o SubSeq(loopSteps, loopIdx + 1, Len(loopSteps))
                    \o <<CurrentStep>>
  /\ UNCHANGED <<pc, goal, maxSteps, maxTokens, plan, loopIdx, executions,
                 totalTokens, completedSteps, stepResults, history, taskResult,
                 taskOptions, plannerCalled, replanned, executorOutcome, cacheVars,
                 visionVars, pureVars>>

\* lines 112-117: continue
SkipStep ==
  /\ AtStep
  /\ ~DepsMet(CurrentStep, completedSteps)
  /\ loopIdx' = loopIdx + 1
  /\ UNCHANGED <<pc, goal, maxSteps, maxTokens, plan, loopSteps, executions,
                 totalTokens, completedSteps, stepResults, history, taskResult,
                 taskOptions, plannerCalled, replanned, executorOutcome, cacheVars, visionVars,
                 pureVars>>

\* lines 121-124: break, then the return
ReachLimits ==
  /\ AtStep
  /\ DepsMet(CurrentStep, completedSteps)
  /\ LimitsReached(executions, totalTokens, maxSteps, maxTokens)
  /\ Return

\* the Map after stepResults.set(id, value)
MapSet(m, id, value) ==
  [k \in (DOMAIN m) \cup {id} |-> IF k = id THEN value ELSE m[k]]

\* mutant of MarkCompleted: only a successful step counts as completed
MarkCompletedOnSuccess(completed, step, execution) ==
  IF execution.result = "success" THEN completed \cup {step.id} ELSE completed

\* line 141: completedSteps.add(step.id)
MarkCompleted(completed, step, execution) == completed \cup {step.id}

\* lines 127-148: execute the step, record it, replan
ExecuteStep(outcome) ==
  /\ AtStep
  /\ DepsMet(CurrentStep, completedSteps)
  /\ ~LimitsReached(executions, totalTokens, maxSteps, maxTokens)
  /\ LET step == CurrentStep
         execution == executeStep(step, outcome)
         completed == MarkCompleted(completedSteps, step, execution)
         results == MapSet(stepResults, step.id,
                           [success |-> execution.result = "success",
                            output |-> execution.output,
                            metadata |-> None])
     IN /\ executions' = Append(executions, execution)
        /\ totalTokens' = totalTokens + execution.tokensUsed
        /\ history' = Append(history,
                             [agent |-> step.agent, action |-> step.instruction,
                              result |-> execution.result,
                              summary |-> Substring(execution.output, 0, 200)])
        /\ completedSteps' = completed
        /\ stepResults' = results
        /\ replanned' = shouldReplan(plan, results)
        /\ plan' = IF shouldReplan(plan, results)
                   THEN refinePlan(plan, completed, results)
                   ELSE plan
  /\ executorOutcome' = Some(SwitchOutcome(CurrentStep, outcome))
  /\ loopIdx' = loopIdx + 1
  /\ UNCHANGED <<pc, goal, maxSteps, maxTokens, loopSteps, taskResult, taskOptions, plannerCalled,
                 cacheVars, visionVars, pureVars>>

\* the loop ran off the end of the array: the return
FinishTask ==
  /\ pc = "loop"
  /\ loopIdx > Len(loopSteps)
  /\ Return

\* quickExecute: route the intent, run it as step 1 through executeStep; the
\* context is only handed on to the executor, whose behaviour is outcome
quickExecute(intent, outcome) ==
  LET routing == routeTask(intent)
      step == [id |-> 1, agent |-> routing.primaryAgent, instruction |-> intent]
      execution == executeStep(step, outcome)
  IN [success |-> execution.result = "success",
      output |-> execution.output,
      tokens |-> execution.tokensUsed]

\* the intents handed to quickExecute
QuickIntents ==
  { "", "hello there", "Click the Submit button", "run npm test",
    "open the web page", "debug the function", "look at the image",
    "review and optimize this class", "detect elements", "plan the work" }

\* a call of quickExecute; it reads and writes no field of the processor
QuickExecute(intent, outcome) ==
  /\ pc = "idle"
  /\ pc' = "quick"
  /\ pureCall' = Some([method |-> "quickExecute", intent |-> intent,
                       switched |-> SwitchOutcome([agent |-> routeTask(intent).primaryAgent],
                                                  outcome)])
  /\ pureReturn' = Some(quickExecute(intent, outcome))
  /\ UNCHANGED <<goal, maxSteps, maxTokens, plan, loopSteps, loopIdx, executions,
                 totalTokens, completedSteps, stepResults, history, taskResult,
                 taskOptions, plannerCalled, replanned, executorOutcome,
                 cacheVars, visionVars>>

\* the caller of quickExecute takes the returned value
QuickReturned ==
  /\ pc = "quick"
  /\ pc' = "idle"
  /\ pureCall' = None
  /\ pureReturn' = None
  /\ UNCHANGED <<goal, maxSteps, maxTokens, plan, loopSteps, loopIdx, executions,
                 totalTokens, completedSteps, stepResults, history, taskResult,
                 taskOptions, plannerCalled, replanned, executorOutcome,
                 cacheVars, visionVars>>

ProcNext ==
  \/ pc = "idle" /\ \E g \in Goals, options \in TaskOptions : ProcessTask(g, options)
  \/ \E intent \in QuickIntents, outcome \in ExecOutcomes : QuickExecute(intent, outcome)
  \/ QuickReturned
  \/ pc = "idle" /\ \E options \in TaskOptions, p \in StubPlans :
                      ProcessTaskPlanned(options, p)
  \/ SkipStep
  \/ ReachLimits
  \/ \E outcome \in ExecOutcomes : ExecuteStep(outcome)
  \/ FinishTask

\* ------------------------------------------------------------------------
\* AccessibilityService: getUiTree, clearCache, fetchUiTree, fetchFromWmctrl
\* ------------------------------------------------------------------------
CACHE_TTL_MS == 2000

\* private normalizeElements: raw nodes are records or None (skipped, its
\* index is still consumed)
RECURSIVE normalizeElements(_, _, _)
normalizeElements(nodes, depth, parentId) ==
  IF nodes = <<>> THEN <<>>
  ELSE LET index == Len(nodes) - 1
           node == nodes[Len(nodes)]
           id == IF parentId # "" THEN parentId \o "." \o ToString(index)
                 ELSE ToString(index)
           before == normalizeElements(SubSeq(nodes, 1, index), depth, parentId)
       IN IF node = None THEN before
          ELSE Append(before,
                 [id |-> id,
                  name |-> node.name,
                  role |-> IF node.role = "" THEN "unknown" ELSE node.role,
                  rect |-> node.rect,
                  depth |-> depth,
                  path |-> IF node.name # "" THEN node.name
                           ELSE IF node.role # "" THEN node.role ELSE "unknown",
                  children |-> normalizeElements(node.children, depth + 1, id)])

\* what the accessibility script can do: print a tree of a known type, a
\* tree of another type, a known type without an applications array, output
\* that is no JSON, or fail (non-zero exit) or time out
RawNode(name, role, children) ==
  [name |-> name, role |-> role, rect |-> None, children |-> children]

AxApplications ==
  { <<>>,
    << RawNode("Editor", "application", << RawNode("Save", "push button", <<>>) >>),
       None >> }

PrimaryOutcomes ==
  { [kind |-> "axtree", applications |-> a] : a \in AxApplications }
  \cup { [kind |-> "x11tree", applications |-> <<>>] }
  \cup { [kind |-> k, applications |-> <<>>] :
           k \in {"unknownType", "noApplications", "malformedJson", "error",
                  "timeout"} }

\* what wmctrl can do: list windows (a title may be empty), fail, time out
WmctrlOutcomes ==
  { [kind |-> "ok", windows |-> w] :
      w \in { << [id |-> "0x01", title |-> "Editor"],
                 [id |-> "0x02", title |-> ""] >> } }
  \cup { [kind |-> k, windows |-> <<>>] : k \in {"error", "timeout"} }

UiTreeResult(tree, source, t) ==
  [raised |-> FALSE, type |-> "axtree", tree |-> tree, source |-> source,
   timestamp |-> t]

\* mutant of fetchUiTree: no catch block, so a failing script or malformed
\* JSON raises out of the fetch
fetchUiTreeNoCatch(outcome, t) ==
  IF outcome.kind = "axtree"
    THEN Some(UiTreeResult(normalizeElements(outcome.applications, 0, ""), "pyatspi", t))
  ELSE IF outcome.kind = "x11tree"
    THEN Some(UiTreeResult(normalizeElements(outcome.applications, 0, ""), "x11", t))
  ELSE IF outcome.kind \in {"malformedJson", "error", "timeout"}
    THEN Some([UiTreeResult(<<>>, "empty", t) EXCEPT !.raised = TRUE])
  ELSE None

\* fetchUiTree up to the wmctrl fallback: Some(result) when the script's
\* output is a tree of a known type, None when the fallback is to be tried
\* (unrecognized output, or the catch block)
fetchUiTree(outcome, t) ==
  IF outcome.kind = "axtree"
    THEN Some(UiTreeResult(normalizeElements(outcome.applications, 0, ""), "pyatspi", t))
  ELSE IF outcome.kind = "x11tree"
    THEN Some(UiTreeResult(normalizeElements(outcome.applications, 0, ""), "x11", t))
  ELSE None

\* fetchFromWmctrl: windows.filter(w => w.name)
WmctrlWindows(windows) ==
  LET named(w) == w.title # ""
      kept == SelectSeq(windows, named)
  IN [i \in 1..Len(kept) |->
        [id |-> "win-" \o kept[i].id, name |-> kept[i].title, role |-> "window",
         rect |-> None, depth |-> 0, path |-> kept[i].title, children |-> <<>>]]

\* private fetchFromWmctrl
fetchFromWmctrl(outcome, t) ==
  IF outcome.kind = "ok"
  THEN UiTreeResult(WmctrlWindows(outcome.windows), "wmctrl", t)
  ELSE UiTreeResult(<<>>, "empty", t)

\* mutant of CacheUsable: a slot expiring at this very instant is still reused
CacheUsableAtExpiry(useCache, slot, t) ==
  useCache /\ IsSome(slot) /\ Get(slot).expiresAt >= t

\* line 82: the slot may be reused
CacheUsable(useCache, slot, t) ==
  useCache /\ IsSome(slot) /\ Get(slot).expiresAt > t

Callers == {"a", "b"}

CacheInit ==
  /\ now = 0
  /\ cache = None
  /\ callPc = [c \in Callers |-> "idle"]
  /\ callUseCache = [c \in Callers |-> TRUE]
  /\ callResult = [c \in Callers |-> None]
  /\ primaryOutcome = [c \in Callers |-> None]
  /\ wmctrlOutcome = [c \in Callers |-> None]
  /\ cacheTrace = [clearedInFlight |-> [c \in Callers |-> FALSE],
                   slotFromClearedFetch |-> FALSE]

\* getUiTree, lines 80-87: return the cached result, or start fetchUiTree
GetUiTree(c, useCache) ==
  /\ callPc[c] = "idle"
  /\ callUseCache' = [callUseCache EXCEPT ![c] = useCache]
  /\ primaryOutcome' = [primaryOutcome EXCEPT ![c] = None]
  /\ wmctrlOutcome' = [wmctrlOutcome EXCEPT ![c] = None]
  /\ IF CacheUsable(useCache, cache, now)
     THEN /\ callResult' = [callResult EXCEPT ![c] = Some(Get(cache).result)]
          /\ callPc' = [callPc EXCEPT ![c] = "returnedCached"]
     ELSE /\ callResult' = [callResult EXCEPT ![c] = None]
          /\ callPc' = [callPc EXCEPT ![c] = "primary"]
  /\ cacheTrace' = [cacheTrace EXCEPT !.clearedInFlight[c] = FALSE]
  /\ UNCHANGED <<now, cache, procVars, visionVars, pureVars>>

\* mutant of StoreAndReturn: a fetch that completes while the slot is filled
\* leaves the slot to the earlier fetch
StoreAndReturnFirstWins(c, result) ==
  IF result.raised
  THEN /\ callPc' = [callPc EXCEPT ![c] = "raised"]
       /\ UNCHANGED <<cache, callResult, cacheTrace>>
  ELSE /\ cache' = IF IsSome(cache) THEN cache
                   ELSE Some([result |-> result, expiresAt |-> now + CACHE_TTL_MS])
       /\ cacheTrace' = [cacheTrace EXCEPT
                           !.slotFromClearedFetch =
                             IF IsSome(cache) THEN @ ELSE cacheTrace.clearedInFlight[c]]
       /\ callResult' = [callResult EXCEPT ![c] = Some(result)]
       /\ callPc' = [callPc EXCEPT ![c] = "returned"]

\* getUiTree, lines 89-95: store the fetched result with a new expiry and
\* return it; a fetch that raised leaves the slot alone
StoreAndReturn(c, result) ==
  IF result.raised
  THEN /\ callPc' = [callPc EXCEPT ![c] = "raised"]
       /\ UNCHANGED <<cache, callResult, cacheTrace>>
  ELSE /\ cache' = Some([result |-> result, expiresAt |-> now + CACHE_TTL_MS])
       /\ cacheTrace' = [cacheTrace EXCEPT
                           !.slotFromClearedFetch = cacheTrace.clearedInFlight[c]]
       /\ callResult' = [callResult EXCEPT ![c] = Some(result)]
       /\ callPc' = [callPc EXCEPT ![c] = "returned"]

\* the accessibility script finished (lines 412-442)
PrimaryDone(c, outcome) ==
  /\ callPc[c] = "primary"
  /\ primaryOutcome' = [primaryOutcome EXCEPT ![c] = Some(outcome.kind)]
  /\ LET fetched == fetchUiTree(outcome, now)
     IN IF IsSome(fetched)
        THEN StoreAndReturn(c, Get(fetched))
        ELSE /\ callPc' = [callPc EXCEPT ![c] = "wmctrl"]
             /\ UNCHANGED <<cache, callResult, cacheTrace>>
  /\ UNCHANGED <<now, callUseCache, wmctrlOutcome, procVars, visionVars, pureVars>>

\* wmctrl finished (lines 447-490)
WmctrlDone(c, outcome) ==
  /\ callPc[c] = "wmctrl"
  /\ wmctrlOutcome' = [wmctrlOutcome EXCEPT ![c] = Some(outcome.kind)]
  /\ StoreAndReturn(c, fetchFromWmctrl(outcome, now))
  /\ UNCHANGED <<now, callUseCache, primaryOutcome, procVars, visionVars, pureVars>>

\* the caller takes the result; the call slot is free for the next call
TakeResult(c) ==
  /\ callPc[c] \in {"returnedCached", "returned"}
  /\ callPc' = [callPc EXCEPT ![c] = "idle"]
  /\ callResult' = [callResult EXCEPT ![c] = None]
  /\ callUseCache' = [callUseCache EXCEPT ![c] = TRUE]
  /\ primaryOutcome' = [primaryOutcome EXCEPT ![c] = None]
  /\ wmctrlOutcome' = [wmctrlOutcome EXCEPT ![c] = None]
  /\ cacheTrace' = [cacheTrace EXCEPT !.clearedInFlight[c] = FALSE]
  /\ UNCHANGED <<now, cache, procVars, visionVars, pureVars>>

\* clearCache, lines 101-104
ClearCache ==
  /\ cache' = None
  /\ cacheTrace' =
       [clearedInFlight |->
          [c \in Callers |-> \/ cacheTrace.clearedInFlight[c]
                             \/ callPc[c] \in {"primary", "wmctrl"}],
        slotFromClearedFetch |-> FALSE]
  /\ UNCHANGED <<now, callPc, callUseCache, callResult, primaryOutcome, wmctrlOutcome,
                 procVars, visionVars, pureVars>>

\* the clock advances
MaxTime == 3000
TickSteps == {1000, 2000}

Tick(d) ==
  /\ now + d <= MaxTime
  /\ now' = now + d
  /\ UNCHANGED <<cache, callPc, callUseCache, callResult, primaryOutcome, wmctrlOutcome,
                 cacheTrace, procVars, visionVars, pureVars>>

CacheNext ==
  \/ \E c \in Callers, useCache \in BOOLEAN : GetUiTree(c, useCache)
  \/ \E c \in Callers, outcome \in PrimaryOutcomes : PrimaryDone(c, outcome)
  \/ \E c \in Callers, outcome \in WmctrlOutcomes : WmctrlDone(c, outcome)
  \/ \E c \in Callers : TakeResult(c)
  \/ ClearCache
  \/ \E d \in TickSteps : Tick(d)

\* ------------------------------------------------------------------------
\* AccessibilityService: searchElements and findElementAt
\* ------------------------------------------------------------------------
\* scores and thresholds are fractions num / den with den > 0
Rat(n, d) == [num |-> n, den |-> d]
RatGeq(a, b) == a.num * b.den >= b.num * a.den
RatGt(a, b) == a.num * b.den > b.num * a.den
RatAdd(a, b) == Rat(a.num * b.den + b.num * a.den, a.den * b.den)
RatMul(a, b) == Rat(a.num * b.num, a.den * b.den)
RatMin(a, b) == IF RatGeq(b, a) THEN a ELSE b

\* levenshteinDistance, lines 9-31: matrix[i][j] for the first i characters
\* of b and the first j of a
levenshteinDistance(a, b) ==
  LET matrix[i \in 0..Len(b), j \in 0..Len(a)] ==
        IF i = 0 THEN j
        ELSE IF j = 0 THEN i
        ELSE IF SubSeq(b, i, i) = SubSeq(a, j, j) THEN matrix[i - 1, j - 1]
        ELSE Min(Min(matrix[i - 1, j - 1] + 1, matrix[i, j - 1] + 1),
                 matrix[i - 1, j] + 1)
  IN matrix[Len(b), Len(a)]

\* stringSimilarity, lines 33-39
stringSimilarity(a, b) ==
  IF a = "" /\ b = "" THEN Rat(1, 1)
  ELSE IF a = "" \/ b = "" THEN Rat(0, 1)
  ELSE LET distance == levenshteinDistance(ToLowerCase(a), ToLowerCase(b))
           maxLength == IF Len(a) >= Len(b) THEN Len(a) ELSE Len(b)
       IN Rat(maxLength - distance, maxLength)

\* s.startsWith(k)
StartsWith(s, k) == Len(k) <= Len(s) /\ SubSeq(s, 1, Len(k)) = k

DefaultMaxResults == 50
DefaultFuzzyThreshold == Rat(6, 10)
MaxSearchDepth == 15

\* mutant of NameScore: the fuzzy tier takes any similarity
NameScoreNoThreshold(nodeNameLower, searchLower, fuzzyThreshold) ==
  IF nodeNameLower = searchLower THEN [score |-> Rat(10, 10), matchType |-> "exact"]
  ELSE IF StartsWith(nodeNameLower, searchLower)
    THEN [score |-> Rat(9, 10), matchType |-> "contains"]
  ELSE IF Includes(nodeNameLower, searchLower)
    THEN [score |-> Rat(8, 10), matchType |-> "contains"]
  ELSE [score |-> RatMul(stringSimilarity(nodeNameLower, searchLower), Rat(7, 10)),
        matchType |-> "fuzzy"]

\* searchNode, lines 159-183: the score and tier of a name against the query
NameScore(nodeNameLower, searchLower, fuzzyThreshold) ==
  IF nodeNameLower = searchLower THEN [score |-> Rat(10, 10), matchType |-> "exact"]
  ELSE IF StartsWith(nodeNameLower, searchLower)
    THEN [score |-> Rat(9, 10), matchType |-> "contains"]
  ELSE IF Includes(nodeNameLower, searchLower)
    THEN [score |-> Rat(8, 10), matchType |-> "contains"]
  ELSE LET similarity == stringSimilarity(nodeNameLower, searchLower)
       IN IF RatGeq(similarity, fuzzyThreshold)
          THEN [score |-> RatMul(similarity, Rat(7, 10)), matchType |-> "fuzzy"]
          ELSE [score |-> Rat(0, 1), matchType |-> "null"]

InteractiveRoles == {"push button", "button", "link", "text", "entry", "menu item"}

\* searchNode, lines 185-196: the boosts of a node that scored
Boosted(score, node) ==
  LET nodeRole == ToLowerCase(node.role)
      interactive == IF \E r \in InteractiveRoles : Includes(nodeRole, r)
                     THEN RatAdd(score, Rat(1, 10)) ELSE score
  IN IF node.rect # None /\ Get(node.rect).width > 0 /\ Get(node.rect).height > 0
     THEN RatAdd(interactive, Rat(5, 100)) ELSE interactive

\* mutant of CollectionFull: collection stops at maxResults candidates
CollectionFullAtMaxResults(matches, maxResults) == Len(matches) >= maxResults

\* searchNode, line 127
CollectionFull(matches, maxResults) == Len(matches) >= maxResults * 2

\* searchNode, lines 126-209; q holds searchLower, targetRole, maxResults
\* and fuzzyThreshold of the call, matches is the array gathered so far
RECURSIVE searchNode(_, _, _, _, _)
RECURSIVE searchChildren(_, _, _, _, _)
searchChildren(children, parentPath, depth, q, matches) ==
  IF children = <<>> THEN matches
  ELSE searchChildren(Tail(children), parentPath, depth, q,
                      searchNode(children[1], parentPath, depth, q, matches))

searchNode(node, parentPath, depth, q, matches) ==
  IF CollectionFull(matches, q.maxResults) \/ depth > MaxSearchDepth THEN matches
  ELSE
    LET label == IF node.name # "" THEN node.name ELSE node.role
        currentPath == IF parentPath # "" THEN parentPath \o " > " \o label ELSE label
        nodeName == Trim(node.name)
        nodeNameLower == ToLowerCase(nodeName)
        nodeRole == ToLowerCase(node.role)
        hasRole == q.targetRole # None /\ Get(q.targetRole) # ""
        roleMatch == ~hasRole \/ Includes(nodeRole, Get(q.targetRole))
        byRole == IF hasRole /\ q.searchLower = ""
                  THEN [score |-> Rat(5, 10), matchType |-> "role"]
                  ELSE [score |-> Rat(0, 1), matchType |-> "null"]
        scored == IF q.searchLower # "" /\ nodeName # ""
                  THEN LET byName == NameScore(nodeNameLower, q.searchLower,
                                               q.fuzzyThreshold)
                       IN IF byName.matchType = "null" THEN byRole ELSE byName
                  ELSE byRole
        pushed == IF scored.score.num > 0
                  THEN Append(matches,
                         [id |-> node.id, name |-> node.name, role |-> node.role,
                          rect |-> node.rect, depth |-> node.depth,
                          children |-> node.children, path |-> currentPath,
                          score |-> RatMin(Boosted(scored.score, node), Rat(1, 1)),
                          matchType |-> scored.matchType])
                  ELSE matches
    IN IF ~roleMatch
       THEN searchChildren(node.children, currentPath, depth + 1, q, matches)
       ELSE searchChildren(node.children, currentPath, depth + 1, q, pushed)

\* matches.sort((a, b) => b.score - a.score): stable, by descending score
RECURSIVE SortMatches(_)
SortMatches(matches) ==
  IF matches = <<>> THEN <<>>
  ELSE LET n == Len(matches)
           first == CHOOSE i \in 1..n :
                      /\ \A j \in 1..n : RatGeq(matches[i].score, matches[j].score)
                      /\ \A j \in 1..(i - 1) : RatGt(matches[i].score, matches[j].score)
       IN <<matches[first]>>
            \o SortMatches(SubSeq(matches, 1, first - 1) \o SubSeq(matches, first + 1, n))

\* searchElements, lines 111-222, on the tree getUiTree delivered
searchElements(query, role, options, uiTree) ==
  LET maxResults == IF options.maxResults = None THEN DefaultMaxResults
                    ELSE Get(options.maxResults)
      fuzzyThreshold == IF options.fuzzyThreshold = None THEN DefaultFuzzyThreshold
                        ELSE Get(options.fuzzyThreshold)
      q == [searchLower |-> Trim(ToLowerCase(query)),
            targetRole |-> IF role = None THEN None
                           ELSE Some(Trim(ToLowerCase(Get(role)))),
            maxResults |-> maxResults,
            fuzzyThreshold |-> fuzzyThreshold]
      matches == SortMatches(searchChildren(uiTree.tree, "", 0, q, <<>>))
      topMatches == SubSeq(matches, 1, Min(maxResults, Len(matches)))
  IN [count |-> Len(topMatches), matches |-> topMatches, source |-> uiTree.source,
      query |-> query]

\* findElementAt, lines 236-254; best holds bestMatch and smallestArea (None
\* for Infinity)
RECURSIVE checkNode(_, _, _, _)
RECURSIVE checkChildren(_, _, _, _)
checkChildren(children, x, y, best) ==
  IF children = <<>> THEN best
  ELSE checkChildren(Tail(children), x, y, checkNode(children[1], x, y, best))

checkNode(node, x, y, best) ==
  IF node.rect = None THEN best
  ELSE LET rect == Get(node.rect)
           inside == /\ x >= rect.x /\ x <= rect.x + rect.width
                     /\ y >= rect.y /\ y <= rect.y + rect.height
           area == rect.width * rect.height
           checked == IF inside /\ (best.smallestArea = None
                                    \/ area < Get(best.smallestArea))
                      THEN [bestMatch |-> Some(node), smallestArea |-> Some(area)]
                      ELSE best
       IN checkChildren(node.children, x, y, checked)

\* findElementAt, lines 226-258, on the tree getUiTree delivered; None is null
findElementAt(x, y, uiTree) ==
  checkChildren(uiTree.tree, x, y, [bestMatch |-> None, smallestArea |-> None]).bestMatch

\* ------------------------------------------------------------------------
\* VisionService: detectStateChanges and waitForStabilization
\* (folonited/src/computer-use/computer-use.service.ts)
\* ------------------------------------------------------------------------
\* a DetectedElement; center and text may be absent (None)
DetectedElement(type, center, text) == [type |-> type, center |-> center, text |-> text]

Point(x, y) == [x |-> x, y |-> y]

\* lines 1352-1356, without the final Math.sqrt: the square of the distance
\* elementDistance returns.  An absent center counts as (0, 0).  Math.sqrt
\* is strictly increasing and exact on perfect squares, so
\* elementDistance(a, b) < T exactly when this value is < T * T.
elementDistanceSquared(a, b) ==
  LET ax == IF IsSome(a.center) THEN Get(a.center).x ELSE 0
      ay == IF IsSome(a.center) THEN Get(a.center).y ELSE 0
      bx == IF IsSome(b.center) THEN Get(b.center).x ELSE 0
      by == IF IsSome(b.center) THEN Get(b.center).y ELSE 0
      dx == ax - bx
      dy == ay - by
  IN dx * dx + dy * dy

\* mutant of SameElement: the 50px bound is inclusive
SameElementInclusive(p, c) == elementDistanceSquared(p, c) <= 50 * 50 /\ p.type = c.type

\* lines 1111 and 1124: the predicate of the existence matching
SameElement(p, c) == elementDistanceSquared(p, c) < 50 * 50 /\ p.type = c.type

\* line 1137: the predicate of the text-change matching
SameSpot(p, c) == elementDistanceSquared(p, c) < 20 * 20

\* a JavaScript string-or-undefined used as a condition
Truthy(text) == IsSome(text) /\ Get(text) # ""

\* Array.prototype.find with the existence predicate: index of the first
\* element of elements matching e, 0 if none
FindSameElement(elements, e) ==
  LET hits == {i \in 1..Len(elements) : SameElement(elements[i], e)}
  IN IF hits = {} THEN 0 ELSE CHOOSE i \in hits : \A j \in hits : i <= j

\* Array.prototype.find with the text-change predicate
FindSameSpot(elements, e) ==
  LET hits == {i \in 1..Len(elements) : SameSpot(elements[i], e)}
  IN IF hits = {} THEN 0 ELSE CHOOSE i \in hits : \A j \in hits : i <= j

\* the changes pushed by one of the three loops (lines 1109-1147), in order
RECURSIVE AddedFrom(_, _, _)
AddedFrom(prevElements, currElements, i) ==
  IF i > Len(currElements) THEN <<>>
  ELSE LET curr == currElements[i]
           match == FindSameElement(prevElements, curr)
       IN (IF match = 0 THEN <<[type |-> "element_added", element |-> curr]>> ELSE <<>>)
          \o AddedFrom(prevElements, currElements, i + 1)

RECURSIVE RemovedFrom(_, _, _)
RemovedFrom(prevElements, currElements, i) ==
  IF i > Len(prevElements) THEN <<>>
  ELSE LET prev == prevElements[i]
           match == FindSameElement(currElements, prev)
       IN (IF match = 0 THEN <<[type |-> "element_removed", element |-> prev]>> ELSE <<>>)
          \o RemovedFrom(prevElements, currElements, i + 1)

RECURSIVE TextChangedFrom(_, _, _)
TextChangedFrom(prevElements, currElements, i) ==
  IF i > Len(currElements) THEN <<>>
  ELSE LET curr == currElements[i]
           match == FindSameSpot(prevElements, curr)
       IN (IF match # 0 /\ prevElements[match].text # curr.text
           THEN <<[type |-> "text_changed", element |-> curr,
                   before |-> prevElements[match].text, after |-> curr.text]>>
           ELSE <<>>)
          \o TextChangedFrom(prevElements, currElements, i + 1)

CountType(changes, type) ==
  LET IsType(c) == c.type = type
  IN Len(SelectSeq(changes, IsType))

\* lines 1358-1373
summarizeChanges(changes) ==
  IF Len(changes) = 0 THEN "No changes detected"
  ELSE LET added == CountType(changes, "element_added")
           removed == CountType(changes, "element_removed")
           textChanged == CountType(changes, "text_changed")
       IN Join((IF added > 0 THEN <<ToString(added) \o " element(s) added">> ELSE <<>>)
               \o (IF removed > 0 THEN <<ToString(removed) \o " element(s) removed">>
                                  ELSE <<>>)
               \o (IF textChanged > 0 THEN <<ToString(textChanged) \o " text change(s)">>
                                      ELSE <<>>),
               ", ")

\* lines 1153-1154
SignificantChange(changes) ==
  Len(changes) > 0
  /\ \E i \in 1..Len(changes) :
       changes[i].type # "text_changed" \/ Truthy(changes[i].after)

\* detectElements, lines 1014-1017: a failing detector yields no elements
\* mutant of detectElements: a failed detection yields a placeholder element
detectElementsPlaceholder(outcome) ==
  IF outcome.kind = "ok" THEN [elements |-> outcome.elements]
  ELSE [elements |-> <<DetectedElement("unknown", None, None)>>]

detectElements(outcome) ==
  IF outcome.kind = "ok" THEN [elements |-> outcome.elements]
  ELSE [elements |-> <<>>]

\* mutant of detectStateChanges: the first call compares with an empty frame
detectStateChangesNoSeed(prevState, currentElements, t) ==
  LET prevElements == IF IsSome(prevState) THEN Get(prevState).elements ELSE <<>>
      currElements == currentElements.elements
      changes == AddedFrom(prevElements, currElements, 1)
                 \o RemovedFrom(prevElements, currElements, 1)
                 \o TextChangedFrom(prevElements, currElements, 1)
  IN [previousState |-> Some([elements |-> currElements, timestamp |-> t]),
      result |-> [changes |-> changes,
                  hasSignificantChange |-> SignificantChange(changes),
                  summary |-> summarizeChanges(changes)]]

\* detectStateChanges after its await, lines 1089-1163: the new previousState
\* and the value returned
detectStateChanges(prevState, currentElements, t) ==
  LET currentState == [elements |-> currentElements.elements, timestamp |-> t]
  IN IF ~IsSome(prevState)
     THEN [previousState |-> Some(currentState),
           result |-> [changes |-> <<>>,
                       hasSignificantChange |-> FALSE,
                       summary |-> "Initial state captured"]]
     ELSE LET prevElements == Get(prevState).elements
              currElements == currentState.elements
              changes == AddedFrom(prevElements, currElements, 1)
                         \o RemovedFrom(prevElements, currElements, 1)
                         \o TextChangedFrom(prevElements, currElements, 1)
          IN [previousState |-> Some(currentState),
              result |-> [changes |-> changes,
                          hasSignificantChange |-> SignificantChange(changes),
                          summary |-> summarizeChanges(changes)]]

\* ---- what the detector may see ----
ElementUniverse ==
  { DetectedElement("button", None, Some("OK")),
    DetectedElement("button", Some(Point(30, 40)), Some("OK")),
    DetectedElement("button", Some(Point(30, 39)), Some("Go")),
    DetectedElement("input", Some(Point(0, 0)), Some("")),
    DetectedElement("button", Some(Point(100, 0)), Some("OK")) }

MaxElems == 2

Frames == UNION {[1..n -> ElementUniverse] : n \in 0..MaxElems}

DetectOutcomes ==
  {[kind |-> "ok", elements |-> f] : f \in Frames}
  \cup {[kind |-> "error", elements |-> <<>>]}

VisionInit ==
  /\ previousState = None
  /\ detected = None
  /\ detectReturn = None
  /\ waitPc = "idle"
  /\ waitArgs = [timeoutMs |-> 0, stablePeriodMs |-> 0]
  /\ startTime = 0
  /\ lastChangeTime = 0
  /\ lastState = None
  /\ waitReturn = None
  /\ waitTrace = [lastPoll |-> None, lastSignificant |-> None, returnedAt |-> None,
                  failedPoll |-> None]

\* a detectStateChanges call, from the completion of detectElements on
DetectStateChanges(outcome) ==
  /\ detectReturn = None
  /\ LET current == detectElements(outcome)
         r == detectStateChanges(previousState, current, now)
     IN /\ detected' = Some(current)
        /\ previousState' = r.previousState
        /\ detectReturn' = Some(r.result)
  /\ UNCHANGED <<waitVars, procVars, cacheVars, pureVars>>

\* the caller takes the result
DetectReturned ==
  /\ detectReturn # None
  /\ detected' = None
  /\ detectReturn' = None
  /\ UNCHANGED <<previousState, waitVars, procVars, cacheVars, pureVars>>

DetectNext ==
  \/ \E outcome \in DetectOutcomes : DetectStateChanges(outcome)
  \/ DetectReturned

\* ---- waitForStabilization, lines 1232-1263 ----
\* mutant of WithinTimeout: the loop goes round once more at the timeout itself
WithinTimeoutInclusive(t, start, timeoutMs) == t - start <= timeoutMs

\* line 1240: the loop condition
WithinTimeout(t, start, timeoutMs) == t - start < timeoutMs

\* mutant of NextLastChangeTime: a significant change does not reset the time
NextLastChangeTimeKept(significant, t, last) == last

\* lines 1243-1246
NextLastChangeTime(significant, t, last) == IF significant THEN t ELSE last

\* line 1248
Stable(t, last, stablePeriodMs) == t - last >= stablePeriodMs

WaitArgs == [timeoutMs : {0, 300}, stablePeriodMs : {0, 100, 200}]

\* the frames seen while waiting, how long a poll takes and how long the
\* 100 ms timer actually sleeps
WaitOutcomes ==
  { [kind |-> "ok", elements |-> <<>>],
    [kind |-> "ok", elements |-> <<DetectedElement("button", None, Some("OK"))>>],
    [kind |-> "ok", elements |-> <<DetectedElement("button", Some(Point(100, 0)), Some("OK"))>>],
    [kind |-> "error", elements |-> <<>>] }

PollDurations == {0, 100}
SleepDurations == {100, 200}
MaxStartTime == 300

\* lines 1236-1240: the call, up to the first loop test
WaitForStabilization(args) ==
  /\ waitPc = "idle"
  /\ now <= MaxStartTime
  /\ waitArgs' = args
  /\ startTime' = now
  /\ lastChangeTime' = now
  /\ lastState' = None
  /\ waitTrace' = [lastPoll |-> None, lastSignificant |-> None,
                   returnedAt |-> IF WithinTimeout(now, now, args.timeoutMs)
                                  THEN None ELSE Some(now),
                   failedPoll |-> None]
  /\ IF WithinTimeout(now, now, args.timeoutMs)
     THEN /\ waitPc' = "polling"
          /\ waitReturn' = None
     ELSE /\ waitPc' = "done"
          /\ waitReturn' = Some([stabilized |-> FALSE, finalState |-> None])
  /\ UNCHANGED <<now, cacheSlots, detectVars, procVars, pureVars>>

\* lines 1241-1253: the poll completes after d ms; lastChangeTime is updated
\* and the quiet period tested
PollDone(outcome, d) ==
  /\ waitPc = "polling"
  /\ now' = now + d
  /\ LET current == detectElements(outcome)
         r == detectStateChanges(previousState, current, now')
         changes == r.result
         last == NextLastChangeTime(changes.hasSignificantChange, now', lastChangeTime)
         state == IF changes.hasSignificantChange THEN Some(changes) ELSE lastState
         stable == Stable(now', last, waitArgs.stablePeriodMs)
     IN /\ detected' = Some(current)
        /\ previousState' = r.previousState
        /\ detectReturn' = Some(changes)
        /\ lastChangeTime' = last
        /\ lastState' = state
        /\ waitTrace' = [lastPoll |-> Some(now'),
                         lastSignificant |-> IF changes.hasSignificantChange
                                             THEN Some(now')
                                             ELSE waitTrace.lastSignificant,
                         returnedAt |-> IF stable THEN Some(now') ELSE None,
                         failedPoll |->
                           IF outcome.kind = "ok" THEN waitTrace.failedPoll
                           ELSE Some([at |-> now',
                                      baseline |->
                                        IF IsSome(previousState)
                                        THEN Len(Get(previousState).elements)
                                        ELSE 0])]
        /\ IF stable
           THEN /\ waitPc' = "done"
                /\ waitReturn' = Some([stabilized |-> TRUE, finalState |-> state])
           ELSE /\ waitPc' = "sleeping"
                /\ UNCHANGED waitReturn
  /\ UNCHANGED <<waitArgs, startTime, cacheSlots, procVars, pureVars>>

\* lines 1256 and 1240, 1259-1262: the timer fires after d ms and the loop
\* condition is tested again
SleepDone(d) ==
  /\ waitPc = "sleeping"
  /\ now' = now + d
  /\ IF WithinTimeout(now', startTime, waitArgs.timeoutMs)
     THEN /\ waitPc' = "polling"
          /\ UNCHANGED <<waitReturn, waitTrace>>
     ELSE /\ waitPc' = "done"
          /\ waitReturn' = Some([stabilized |-> FALSE, finalState |-> lastState])
          /\ waitTrace' = [waitTrace EXCEPT !.returnedAt = Some(now')]
  /\ UNCHANGED <<waitArgs, startTime, lastChangeTime, lastState, cacheSlots,
                 detectVars, procVars, pureVars>>

\* the caller takes the result
WaitReturned ==
  /\ waitPc = "done"
  /\ waitPc' = "idle"
  /\ waitReturn' = None
  /\ UNCHANGED <<waitArgs, startTime, lastChangeTime, lastState, waitTrace, now,
                 cacheSlots, detectVars, procVars, pureVars>>

WaitNext ==
  \/ \E args \in WaitArgs : WaitForStabilization(args)
  \/ \E outcome \in WaitOutcomes, d \in PollDurations : PollDone(outcome, d)
  \/ \E d \in SleepDurations : SleepDone(d)
  \/ WaitReturned

\* ------------------------------------------------------------------------
\* Calls of the side-effect-free methods: the arguments are drawn from the
\* input sets, the method is applied, the caller takes the value
\* ------------------------------------------------------------------------
PureInit ==
  /\ pureCall = None
  /\ pureReturn = None

\* the caller takes the returned value
PureReturned ==
  /\ pureCall # None
  /\ pureCall' = None
  /\ pureReturn' = None
  /\ UNCHANGED <<procVars, cacheVars, visionVars>>

\* ---- AgentOrchestrator.routeTask ----
RouteWords == <<"Click", "button", "open FILE", "WEB page", "plan code",
                "xxxxxxxxxxxxxxxxxxxxxxxxxxxxxxxxxxxxxxxxxxxx">>

MaxWords == 3

\* the goals: up to MaxWords of the words, separated by blanks
RECURSIVE Phrases(_)
Phrases(n) ==
  IF n = 0 THEN {""}
  ELSE LET shorter == Phrases(n - 1)
       IN shorter \cup {IF p = "" THEN RouteWords[i] ELSE p \o " " \o RouteWords[i] :
                          p \in shorter, i \in 1..Len(RouteWords)}

RouteGoals == Phrases(MaxWords) \cup {"click the submit button"}

RouteTask(g) ==
  /\ pureCall = None
  /\ pureCall' = Some([method |-> "routeTask", goal |-> g])
  /\ pureReturn' = Some(routeTask(g))
  /\ UNCHANGED <<procVars, cacheVars, visionVars>>

RouteNext ==
  \/ \E g \in RouteGoals : RouteTask(g)
  \/ PureReturned

\* ---- AgentOrchestrator.createAgentContext ----
\* the agents that acted in the histories, and the longest history
HistoryAgents == {"desktop", "browser", "code"}

MaxHistory == 7

\* a history: its i-th action was performed by agents[i] at time i
HistoryOf(agents) ==
  [i \in 1..Len(agents) |->
     [agent |-> agents[i], action |-> "act", result |-> "success",
      summary |-> "", timestamp |-> i]]

Histories == UNION {{HistoryOf(a) : a \in [1..n -> HistoryAgents]} : n \in 0..MaxHistory}

\* the paths of fullContext.files
ContextPaths ==
  <<"src/main.ts", "README.MD", "notes.txt", "Makefile", "a.b/run", "app.py",
    "logo.png", "index.html", "data.csv", "build.sh", "LICENSE">>

FullContext(h) ==
  [taskId |-> "task-1", goal |-> "goal", history |-> h,
   files |-> [i \in 1..Len(ContextPaths) |-> [path |-> ContextPaths[i], type |-> "file"]],
   accumulatedKnowledge |-> <<"k1", "k2", "k3", "k4", "k5", "k6">>]

CreateAgentContext(agentType, h) ==
  /\ pureCall = None
  /\ pureCall' = Some([method |-> "createAgentContext", agentType |-> agentType,
                       fullContext |-> FullContext(h)])
  /\ pureReturn' = Some(createAgentContext(agentType, FullContext(h)))
  /\ UNCHANGED <<procVars, cacheVars, visionVars>>

ContextNext ==
  \/ /\ pureCall = None
     /\ \E agentType \in AgentTypes, h \in Histories : CreateAgentContext(agentType, h)
  \/ PureReturned

\* ---- PlannerAgent.createPlan ----
PlanWords == <<"Edit", "web", "click", "find", "report", "and then", "compare",
               "several code", "fix this code">>

MaxPlanWords == 3

\* the goals: up to n of the words, separated by blanks
RECURSIVE PlanPhrases(_)
PlanPhrases(n) ==
  IF n = 0 THEN {""}
  ELSE LET shorter == PlanPhrases(n - 1)
       IN shorter \cup {IF p = "" THEN PlanWords[i] ELSE p \o " " \o PlanWords[i] :
                          p \in shorter, i \in 1..Len(PlanWords)}

PlanGoals == PlanPhrases(MaxPlanWords) \cup {"edit the config file to fix the bug"}

CreatePlan(g) ==
  /\ pureCall = None
  /\ pureCall' = Some([method |-> "createPlan", goal |-> g])
  /\ pureReturn' = Some(createPlan(g))
  /\ UNCHANGED <<procVars, cacheVars, visionVars>>

PlanNext ==
  \/ /\ pureCall = None
     /\ \E g \in PlanGoals : CreatePlan(g)
  \/ PureReturned

\* ---- PlannerAgent.refinePlan ----
\* the plans refined: those createPlan makes for the goals of processTask
RefinePlans == {createPlan(g) : g \in Goals}

\* a stepResults map: a result for each of the ids, the failed ones failing
ResultsOf(ids, failed) ==
  [id \in ids |-> [success |-> id \notin failed,
                   output |-> IF id \in failed THEN "Error: exit 1" ELSE "ok",
                   metadata |-> None]]

RefinePlan(p, completed, failed) ==
  /\ pureCall = None
  /\ pureCall' = Some([method |-> "refinePlan", currentPlan |-> p,
                       completedSteps |-> completed,
                       stepResults |-> ResultsOf(completed, failed)])
  /\ pureReturn' = Some(refinePlan(p, completed, ResultsOf(completed, failed)))
  /\ UNCHANGED <<procVars, cacheVars, visionVars>>

RefineNext ==
  \/ /\ pureCall = None
     /\ \E p \in RefinePlans :
          \E completed \in SUBSET {p.steps[i].id : i \in 1..Len(p.steps)} :
            \E failed \in SUBSET completed : RefinePlan(p, completed, failed)
  \/ PureReturned

\* ---- AccessibilityService.searchElements and findElementAt ----
Rect(x, y, width, height) == Some([x |-> x, y |-> y, width |-> width, height |-> height])

\* the nodes the accessibility script reports
AxNodes ==
  { [name |-> "Save", role |-> "push button", rect |-> Rect(0, 0, 10, 10)],
    [name |-> "Save As", role |-> "menu item", rect |-> None],
    [name |-> "Autosave", role |-> "label", rect |-> Rect(0, 0, 20, 20)],
    [name |-> "Safe", role |-> "", rect |-> None],
    [name |-> "", role |-> "panel", rect |-> Rect(5, 5, 5, 5)] }

AxNode(n, children) ==
  [name |-> n.name, role |-> n.role, rect |-> n.rect, children |-> children]

\* a chain of n nested nodes
RECURSIVE AxChain(_)
AxChain(n) ==
  IF n = 0 THEN <<>>
  ELSE << [name |-> "Save", role |-> "push button", rect |-> None,
           children |-> AxChain(n - 1)] >>

\* the applications arrays: every arrangement of up to three nodes, and a
\* chain deeper than searchNode descends
AxForests ==
  { <<>>, AxChain(17) }
  \cup { << AxNode(a, <<>>) >> : a \in AxNodes }
  \cup { << AxNode(a, <<>>), AxNode(b, <<>>) >> : a \in AxNodes, b \in AxNodes }
  \cup { << AxNode(a, << AxNode(b, <<>>) >>) >> : a \in AxNodes, b \in AxNodes }
  \cup { << AxNode(a, <<>>), AxNode(b, <<>>), AxNode(c, <<>>) >> :
           a \in AxNodes, b \in AxNodes, c \in AxNodes }
  \cup { << AxNode(a, << AxNode(b, <<>>) >>), AxNode(c, <<>>) >> :
           a \in AxNodes, b \in AxNodes, c \in AxNodes }
  \cup { << AxNode(a, <<>>), AxNode(b, << AxNode(c, <<>>) >>) >> :
           a \in AxNodes, b \in AxNodes, c \in AxNodes }
  \cup { << AxNode(a, << AxNode(b, <<>>), AxNode(c, <<>>) >>) >> :
           a \in AxNodes, b \in AxNodes, c \in AxNodes }
  \cup { << AxNode(a, << AxNode(b, << AxNode(c, <<>>) >>) >>) >> :
           a \in AxNodes, b \in AxNodes, c \in AxNodes }

\* what getUiTree delivers to searchElements and findElementAt
UiTrees == { UiTreeResult(normalizeElements(f, 0, ""), "pyatspi", 0) : f \in AxForests }

SearchQueries == {"save", " SAV", ""}
SearchRoles == {None, Some("Button"), Some("label")}
SearchOptions ==
  { [maxResults |-> m, fuzzyThreshold |-> t] :
      m \in {None, Some(1), Some(2)}, t \in {None, Some(Rat(3, 10))} }

SearchElements(query, role, options, uiTree) ==
  /\ pureCall = None
  /\ pureCall' = Some([method |-> "searchElements", query |-> query, role |-> role,
                       options |-> options, uiTree |-> uiTree])
  /\ pureReturn' = Some(searchElements(query, role, options, uiTree))
  /\ UNCHANGED <<procVars, cacheVars, visionVars>>

Points == { [x |-> 5, y |-> 5], [x |-> 10, y |-> 10], [x |-> 15, y |-> 20],
            [x |-> 30, y |-> 30] }

FindElementAt(point, uiTree) ==
  /\ pureCall = None
  /\ pureCall' = Some([method |-> "findElementAt", x |-> point.x, y |-> point.y,
                       uiTree |-> uiTree])
  /\ pureReturn' = Some(findElementAt(point.x, point.y, uiTree))
  /\ UNCHANGED <<procVars, cacheVars, visionVars>>

SearchNext ==
  \/ /\ pureCall = None
     /\ \E query \in SearchQueries, role \in SearchRoles, options \in SearchOptions,
           uiTree \in UiTrees : SearchElements(query, role, options, uiTree)
  \/ /\ pureCall = None
     /\ \E point \in Points, uiTree \in UiTrees : FindElementAt(point, uiTree)
  \/ PureReturned

\* ------------------------------------------------------------------------
\* Specifications: one per component, the other components at rest
\* ------------------------------------------------------------------------
Init == ProcInit /\ CacheInit /\ VisionInit /\ PureInit

SpecProc == Init /\ [][ProcNext]_vars

SpecCache == Init /\ [][CacheNext]_vars

SpecDetect == Init /\ [][DetectNext]_vars

SpecWait == Init /\ [][WaitNext]_vars

SpecRoute == Init /\ [][RouteNext]_vars

SpecContext == Init /\ [][ContextNext]_vars

SpecPlan == Init /\ [][PlanNext]_vars

SpecRefine == Init /\ [][RefineNext]_vars

SpecSearch == Init /\ [][SearchNext]_vars

\* every detection call returns and every 100 ms timer fires
SpecWaitFair ==
  /\ Init
  /\ [][WaitNext]_vars
  /\ WF_vars(\E outcome \in WaitOutcomes, d \in PollDurations : PollDone(outcome, d))
  /\ WF_vars(\E d \in SleepDurations : SleepDone(d))

\* ------------------------------------------------------------------------
\* Properties of processTask
\* ------------------------------------------------------------------------
\* a step of the loop was executed in this transition
StepExecuted == Len(executions') = Len(executions) + 1
LastExecution == executions'[Len(executions')]

\* the budgets the caller states: the value given, the default when the
\* option is omitted
StatedBudget(opt, default) == IF IsSome(opt) THEN Get(opt) ELSE default

\* C1: for a call with maxSteps = m and maxTokens = t (10 and 10000 when
\* omitted) no step is started once executions.length >= m or totalTokens >= t,
\* so the result never holds more than m executions, and with m = 1 on a
\* 3-step plan it holds exactly 1 execution.
C1_BudgetsStopSteps ==
  /\ Len(executions) <= StatedBudget(taskOptions.maxSteps, DefaultMaxSteps)
  /\ (Len(executions) > 0 =>
        totalTokens - executions[Len(executions)].tokensUsed
          < StatedBudget(taskOptions.maxTokens, DefaultMaxTokens))
  /\ ((/\ pc = "done"
        /\ taskOptions.maxSteps = Some(1)
        /\ Len(loopSteps) = 3
        /\ (\A i \in 1..3 : DepsMet(loopSteps[i], 1..(i - 1))))
      => Len(Get(taskResult).executions) = 1)

\* C2: a step that declares dependsOn is executed only if every id of its
\* dependsOn is in the completed set when the loop reaches the step.
C2_DependenciesGateExecution ==
  [][StepExecuted =>
       /\ LastExecution.stepId = loopSteps[loopIdx].id
       /\ (IsSome(loopSteps[loopIdx].dependsOn) =>
             Range(Get(loopSteps[loopIdx].dependsOn)) \subseteq completedSteps)]_vars

\* C2 witness: the task returned having executed a step that declares a
\* dependency and having passed over another
C2_Witness ==
  /\ pc = "done"
  /\ \E i \in 1..Len(executions) :
        \E k \in 1..Len(loopSteps) :
           /\ loopSteps[k].id = executions[i].stepId
           /\ IsSome(loopSteps[k].dependsOn)
           /\ Get(loopSteps[k].dependsOn) # <<>>
  /\ \E k \in 1..Len(loopSteps) : loopSteps[k].id \notin completedSteps

\* C3: after a replan the steps executed are those of the refined plan: a
\* step is executed with the instruction it has in the live plan.
C3_RefinedPlanIsExecuted ==
  [][StepExecuted =>
       LastExecution.instruction
         = Get(FindStep(plan.steps, LastExecution.stepId)).instruction]_vars

\* C4: an executor that throws is recorded as a 'failure' execution whose
\* output carries the error message, and the call goes on to the next step
\* of the plan instead of throwing.
C4_ThrowBecomesFailure ==
  [][(StepExecuted /\ Get(executorOutcome').kind = "throw") =>
       /\ LastExecution.result = "failure"
       /\ LastExecution.output = "Error: " \o Get(executorOutcome').message
       /\ pc' = "loop"
       /\ loopIdx' = loopIdx + 1
       /\ taskResult' = None]_vars

\* C4 witness: an executor threw on a step, a later step was executed all the
\* same, and the task returned a result
C4_Witness ==
  /\ pc = "done"
  /\ IsSome(taskResult)
  /\ \E i \in 1..Len(executions) :
        /\ i < Len(executions)
        /\ executions[i].agent \in ExecutorAgents
        /\ executions[i].output = "Error: ECONNREFUSED"

\* C5: success is true exactly when every recorded execution succeeded; plan
\* steps that were never executed do not count.
C5_SuccessIsAllExecutionsSucceeded ==
  IsSome(taskResult) =>
    /\ Get(taskResult).executions = executions
    /\ (Get(taskResult).success
          <=> \A i \in 1..Len(executions) : executions[i].result = "success")

\* C5 witness: a successful result that leaves plan steps unexecuted
C5_Witness ==
  /\ IsSome(taskResult)
  /\ Get(taskResult).success
  /\ Len(executions) >= 1
  /\ Len(executions) < Len(Get(taskResult).plan.steps)

\* ------------------------------------------------------------------------
\* Properties of the accessibility-tree cache
\* ------------------------------------------------------------------------
\* C6: getTree(useCache = true) invokes the fetch if and only if the slot is
\* empty or expired (expiresAt <= now); otherwise it returns the cached
\* result unchanged and leaves the slot as it was.
C6_FetchIffEmptyOrExpired ==
  [][\A c \in Callers :
       (callPc[c] = "idle" /\ callPc'[c] # "idle" /\ callUseCache'[c]) =>
         /\ callPc'[c] \in {"primary", "returnedCached"}
         /\ (callPc'[c] = "primary"
               <=> (~IsSome(cache) \/ Get(cache).expiresAt <= now))
         /\ (callPc'[c] = "returnedCached" =>
               /\ callResult'[c] = Some(Get(cache).result)
               /\ cache' = cache)]_vars

\* C6 witness: a call was served from the slot some time after the fetch
\* that filled it, while another call finds the slot at its expiry instant
\* and fetches
C6_Witness ==
  \E c, d \in Callers :
     /\ callPc[c] = "returnedCached"
     /\ Get(callResult[c]).timestamp < now
     /\ callPc[d] = "primary"
     /\ callUseCache[d]
     /\ IsSome(cache)
     /\ Get(cache).expiresAt = now

UiSources == {"pyatspi", "x11", "wmctrl", "empty"}
PrimaryFailures == {"unknownType", "noApplications", "malformedJson", "error", "timeout"}

\* C7: getTree never raises; when the accessibility source fails or prints
\* something unrecognized the window listing is tried, and when that fails
\* too the empty tree is returned; every source is one of pyatspi, x11,
\* wmctrl, empty, and 'empty' only after both sources failed.
C7_FallbackChainNeverRaises ==
  /\ \A c \in Callers :
       /\ callPc[c] # "raised"
       /\ (callPc[c] = "wmctrl" => Get(primaryOutcome[c]) \in PrimaryFailures)
       /\ (callPc[c] = "returned" =>
             LET r == Get(callResult[c])
                 primary == Get(primaryOutcome[c])
             IN /\ r.source \in UiSources
                /\ (primary = "axtree" => r.source = "pyatspi")
                /\ (primary = "x11tree" => r.source = "x11")
                /\ (primary \in PrimaryFailures =>
                      /\ IsSome(wmctrlOutcome[c])
                      /\ (Get(wmctrlOutcome[c]) = "ok" => r.source = "wmctrl")
                      /\ (Get(wmctrlOutcome[c]) # "ok" => r.source = "empty"))
                /\ (r.source = "empty" =>
                      /\ primary \in PrimaryFailures
                      /\ IsSome(wmctrlOutcome[c])
                      /\ Get(wmctrlOutcome[c]) \in {"error", "timeout"}
                      /\ r.tree = <<>>))
       /\ (callPc[c] = "returnedCached" => Get(callResult[c]).source \in UiSources)
  /\ (IsSome(cache) => Get(cache).result.source \in UiSources)

\* C7 witness: one call got the empty tree after the script timed out and
\* wmctrl failed, another got the window listing after malformed JSON
C7_Witness ==
  \E c, d \in Callers :
     /\ callPc[c] = "returned"
     /\ primaryOutcome[c] = Some("timeout")
     /\ wmctrlOutcome[c] = Some("error")
     /\ Get(callResult[c]).source = "empty"
     /\ callPc[d] = "returned"
     /\ primaryOutcome[d] = Some("malformedJson")
     /\ Get(callResult[d]).source = "wmctrl"

\* ------------------------------------------------------------------------
\* Properties of the vision monitor
\* ------------------------------------------------------------------------
\* a detectStateChanges call completes in this transition
DetectCompleted == detectReturn = None /\ detectReturn' # None

\* C8: the first detectStateChanges call, made while no previous state is
\* held, returns changes = [] and hasSignificantChange = false whatever was
\* detected, and stores the detected elements as the baseline.
C8_FirstCallSeedsBaseline ==
  [][(DetectCompleted /\ previousState = None) =>
       /\ Get(detectReturn').changes = <<>>
       /\ Get(detectReturn').hasSignificantChange = FALSE
       /\ IsSome(previousState')
       /\ Get(previousState').elements = Get(detected').elements]_vars

\* C8 witness: a first call that detected two elements returned no change
\* and left them as the baseline
C8_Witness ==
  /\ IsSome(detectReturn)
  /\ Get(detectReturn).summary = "Initial state captured"
  /\ Get(detectReturn).changes = <<>>
  /\ Len(Get(detected).elements) = 2
  /\ Get(previousState).elements = Get(detected).elements

\* same type and centers less than 50px apart, absent centers at the origin
WithinFiftySameType(p, c) ==
  LET px == IF p.center = None THEN 0 ELSE Get(p.center).x
      py == IF p.center = None THEN 0 ELSE Get(p.center).y
      cx == IF c.center = None THEN 0 ELSE Get(c.center).x
      cy == IF c.center = None THEN 0 ELSE Get(c.center).y
  IN p.type = c.type /\ (px - cx) * (px - cx) + (py - cy) * (py - cy) < 2500

\* the elements of these that have no counterpart among those, in order
Unmatched(these, those) ==
  LET Alone(e) == \A j \in 1..Len(those) : ~WithinFiftySameType(those[j], e)
  IN SelectSeq(these, Alone)

\* the elements the changes of one type report, in order
Reported(changes, type) ==
  LET IsType(c) == c.type = type
      picked == SelectSeq(changes, IsType)
  IN [i \in 1..Len(picked) |-> picked[i].element]

\* C9: on every call after the first, element_added is reported exactly for
\* the current elements with no previous element of the same type within
\* 50px, element_removed exactly for the previous elements with no such
\* current element, the previous elements being those the immediately
\* preceding call stored.
C9_AddedRemovedExact ==
  [][(DetectCompleted /\ IsSome(previousState)) =>
       LET prev == Get(previousState).elements
           curr == Get(detected').elements
           changes == Get(detectReturn').changes
       IN /\ Reported(changes, "element_added") = Unmatched(curr, prev)
          /\ Reported(changes, "element_removed") = Unmatched(prev, curr)
          /\ Get(previousState').elements = curr]_vars

\* C9 witness: the button at the origin was detected 100px to the right and
\* is reported both as added (at the new place) and as removed (at the old)
C9_Witness ==
  /\ IsSome(detectReturn)
  /\ Get(detected).elements = <<DetectedElement("button", Some(Point(100, 0)), Some("OK"))>>
  /\ Get(detectReturn).changes =
       << [type |-> "element_added",
           element |-> DetectedElement("button", Some(Point(100, 0)), Some("OK"))],
          [type |-> "element_removed",
           element |-> DetectedElement("button", None, Some("OK"))] >>

\* C10: waitForStabilization returns stabilized = true only right after a
\* poll at which now - lastChangeTime >= stablePeriodMs, lastChangeTime being
\* the start time or the time of the latest poll that observed a significant
\* change; so no poll completed during the last stablePeriodMs before the
\* return observed a significant change.
C10_StabilizedAfterQuietPeriod ==
  /\ (waitPc # "idle" =>
        lastChangeTime = IF IsSome(waitTrace.lastSignificant)
                         THEN Get(waitTrace.lastSignificant)
                         ELSE startTime)
  /\ ((waitPc = "done" /\ Get(waitReturn).stabilized) =>
        LET returnedAt == Get(waitTrace.returnedAt)
        IN /\ waitTrace.lastPoll = Some(returnedAt)
           /\ returnedAt - lastChangeTime >= waitArgs.stablePeriodMs
           /\ (IsSome(waitTrace.lastSignificant) =>
                 Get(waitTrace.lastSignificant) <= returnedAt - waitArgs.stablePeriodMs))

\* C10 witness: a poll observed a significant change after the start, and
\* the call returned stabilized a full quiet period later
C10_Witness ==
  /\ waitPc = "done"
  /\ Get(waitReturn).stabilized
  /\ waitArgs.stablePeriodMs > 0
  /\ IsSome(waitTrace.lastSignificant)
  /\ Get(waitTrace.lastSignificant) > startTime
  /\ Get(waitTrace.returnedAt) >= Get(waitTrace.lastSignificant) + waitArgs.stablePeriodMs
  /\ IsSome(Get(waitReturn).finalState)

\* C11: waitForStabilization terminates when every detection call returns
\* and the clock advances; it returns stabilized = false when the loop test
\* finds now - startTime >= timeoutMs, and it starts no poll once the timeout
\* has elapsed.
C11_WaitTerminates ==
  /\ (waitPc \in {"polling", "sleeping"}) ~> (waitPc = "done")
  /\ [][(waitPc # "polling" /\ waitPc' = "polling") =>
          now' - startTime' < waitArgs'.timeoutMs]_vars
  /\ [][(waitPc = "sleeping" /\ waitPc' # "sleeping"
           /\ now' - startTime >= waitArgs.timeoutMs) =>
          /\ waitPc' = "done"
          /\ Get(waitReturn').stabilized = FALSE]_vars
  /\ []((waitPc = "done" /\ ~Get(waitReturn).stabilized) =>
          Get(waitTrace.returnedAt) - startTime >= waitArgs.timeoutMs)

\* C11 witness: after at least one poll that left the quiet period open the
\* loop test found the timeout elapsed and the call returned stabilized false
C11_Witness ==
  /\ waitPc = "done"
  /\ Get(waitReturn).stabilized = FALSE
  /\ IsSome(waitTrace.lastPoll)
  /\ waitArgs.timeoutMs > 0
  /\ Get(waitTrace.returnedAt) - startTime >= waitArgs.timeoutMs

\* ------------------------------------------------------------------------
\* Properties of the orchestrator and the planner
\* ------------------------------------------------------------------------
\* the number of triggers of an agent type that occur in the lowered goal
KeywordHits(type, lowered) ==
  LET cap == CHOOSE c \in Range(agentCapabilities) : c.type = type
  IN Cardinality({k \in 1..Len(cap.triggers) :
                    Includes(lowered, ToLowerCase(cap.triggers[k]))})

\* the hits of the six agent types on a goal, case ignored
AllKeywordHits(g) ==
  LET lowered == ToLowerCase(g)
  IN [planner |-> KeywordHits("planner", lowered),
      terminal |-> KeywordHits("terminal", lowered),
      desktop |-> KeywordHits("desktop", lowered),
      browser |-> KeywordHits("browser", lowered),
      code |-> KeywordHits("code", lowered),
      vision |-> KeywordHits("vision", lowered)]

\* C12: routeTask scores the 6 agent profiles by the number of their trigger
\* keywords occurring case-insensitively in the goal and returns the highest
\* scorer as primaryAgent; with all scores zero it returns planner, 3
\* estimated steps and no supporting agents; otherwise estimatedSteps is
\* ceil(goal.length / 50) and supportingAgents are the at most 2 next-highest
\* scorers with a non-zero score, never the primary agent.
C12_RouteByKeywordScore ==
  (IsSome(pureCall) /\ Get(pureCall).method = "routeTask") =>
    LET g == Get(pureCall).goal
        r == Get(pureReturn)
        hits == AllKeywordHits(g)
        supporting == IF IsSome(r.supportingAgents) THEN Get(r.supportingAgents) ELSE <<>>
        others == AgentTypes \ ({r.primaryAgent} \cup Range(supporting))
    IN /\ Len(agentCapabilities) = 6
       /\ IF \A t \in AgentTypes : hits[t] = 0
          THEN r = [primaryAgent |-> "planner", supportingAgents |-> None,
                    estimatedSteps |-> 3]
          ELSE /\ \A t \in AgentTypes : hits[t] <= hits[r.primaryAgent]
               /\ (r.estimatedSteps - 1) * 50 < Len(g)
               /\ Len(g) <= r.estimatedSteps * 50
               /\ Len(supporting) <= 2
               /\ (r.supportingAgents # Some(<<>>))
               /\ \A i \in 1..Len(supporting) :
                    /\ supporting[i] # r.primaryAgent
                    /\ hits[supporting[i]] > 0
                    /\ \A j \in 1..(i - 1) :
                         /\ supporting[j] # supporting[i]
                         /\ hits[supporting[j]] >= hits[supporting[i]]
                    /\ \A t \in others : hits[t] <= hits[supporting[i]]
               /\ (Len(supporting) < 2 => \A t \in others : hits[t] = 0)
       /\ (g = "click the submit button" => r.primaryAgent = "desktop")

\* C12 witness: four profiles score on the goal; the call returned a primary
\* agent and exactly two supporting agents
C12_Witness ==
  /\ IsSome(pureCall)
  /\ Get(pureCall).method = "routeTask"
  /\ Cardinality({t \in AgentTypes : AllKeywordHits(Get(pureCall).goal)[t] > 0}) >= 4
  /\ IsSome(Get(pureReturn).supportingAgents)
  /\ Len(Get(Get(pureReturn).supportingAgents)) = 2

\* C13: processTask obtains its plan from createPlan exactly when requirePlan
\* is not false and the routing has estimatedSteps > 1 or at least one
\* supporting agent; otherwise it runs a synthesized plan of exactly one
\* step, for the routed primaryAgent, with the goal as instruction.
C13_PlanOnlyWhenNeeded ==
  [][(pc = "idle" /\ pc' = "loop") =>
       LET routing == routeTask(goal')
           wanted == /\ taskOptions'.requirePlan # Some(FALSE)
                     /\ \/ routing.estimatedSteps > 1
                        \/ /\ IsSome(routing.supportingAgents)
                           /\ Len(Get(routing.supportingAgents)) >= 1
       IN /\ plannerCalled' <=> wanted
          /\ loopSteps' = plan'.steps
          /\ (plannerCalled' => plan' \in {createPlan(goal')} \cup StubPlans)
          /\ (~plannerCalled' =>
                /\ Len(plan'.steps) = 1
                /\ plan'.steps[1].id = 1
                /\ plan'.steps[1].agent = routing.primaryAgent
                /\ plan'.steps[1].instruction = goal')]_vars

\* C13 witness: a short goal with a supporting agent was planned by
\* createPlan although a single step was estimated
C13_Witness ==
  /\ pc = "loop"
  /\ plannerCalled
  /\ goal = "edit code"
  /\ routeTask(goal).estimatedSteps = 1
  /\ plan = createPlan(goal)
  /\ Len(plan.steps) = 3

\* the agents a non-planner type is to see in its history
Whitelist(agentType) ==
  CASE agentType \in {"desktop", "vision"} -> {"desktop", "vision"}
    [] agentType \in {"code", "terminal"} -> {"code", "terminal"}
    [] agentType = "browser" -> {"browser"}

CodeEditGoal(g) ==
  LET l == ToLowerCase(g)
  IN \/ \E w \in {"edit", "modify", "update", "refactor"} : Occ(l, w) # {}
     \/ \E i \in Occ(l, "fix"), j \in Occ(l, "code") : j >= i + 3

\* C15: in every plan of createPlan the step at position i has id i, and
\* every id in a step's dependsOn is the id of an earlier step of the list;
\* for a code-edit goal the first three steps are the pattern's, step 2
\* depending on [1] and step 3 on [2]; the plan ends with a planner step
\* depending on all the steps before it exactly when complexity > 3, and a
\* code-edit plan has no other step.
C15_PlanIdsAndDependencies ==
  (IsSome(pureCall) /\ Get(pureCall).method = "createPlan") =>
    LET g == Get(pureCall).goal
        steps == Get(pureReturn).steps
        n == Len(steps)
        complex == analyzeComplexity(g) > 3
    IN /\ n >= 1
       /\ \A i \in 1..n :
            /\ steps[i].id = i
            /\ IsSome(steps[i].dependsOn) =>
                 \A k \in 1..Len(Get(steps[i].dependsOn)) :
                   Get(steps[i].dependsOn)[k] \in 1..(i - 1)
       /\ CodeEditGoal(g) =>
            /\ n = (IF complex THEN 4 ELSE 3)
            /\ steps[1].dependsOn = None
            /\ steps[2].dependsOn = Some(<<1>>)
            /\ steps[3].dependsOn = Some(<<2>>)
       /\ complex =>
            /\ n >= 2
            /\ steps[n].agent = "planner"
            /\ steps[n].dependsOn = Some([i \in 1..(n - 1) |-> i])
       /\ ~complex => \A i \in 1..n : steps[i].agent # "planner"

\* C15 witness: a code-edit goal of complexity above 3, planned as the three
\* pattern steps and the verification step
C15_Witness ==
  /\ IsSome(pureCall)
  /\ Get(pureCall).method = "createPlan"
  /\ CodeEditGoal(Get(pureCall).goal)
  /\ analyzeComplexity(Get(pureCall).goal) > 3
  /\ Len(Get(pureReturn).steps) = 4
  /\ Get(pureReturn).steps[4].dependsOn = Some(<<1, 2, 3>>)

\* some recorded result is a failure of a plan step that has no maxRetries
FailedWithoutRetries(p, results) ==
  \E i \in 1..Len(p.steps) :
    /\ p.steps[i].maxRetries = None
    /\ p.steps[i].id \in DOMAIN results
    /\ ~results[p.steps[i].id].success

\* C16: the check made after a step is executed asks for a replan if and
\* only if some step result is a failure of a plan step without maxRetries,
\* or the tokens used by the executed steps exceed twice
\* plan.estimatedTokens (kept in quarter tokens); so a run whose steps all
\* succeed and whose token usage passes twice the estimate is replanned.
C16_ReplanOnFailureOrTokenOverrun ==
  [][StepExecuted =>
       (replanned' <=> \/ FailedWithoutRetries(plan, stepResults')
                       \/ 4 * totalTokens' > 2 * plan.estimatedTokens)]_vars

\* the declared dependencies of a step that have a failed result
FailedDependencies(step, results) ==
  IF step.dependsOn = None THEN {}
  ELSE {Get(step.dependsOn)[k] : k \in 1..Len(Get(step.dependsOn))}
         \cap {id \in DOMAIN results : ~results[id].success}

\* C17: for any set of completed ids the plan refinePlan returns has the
\* steps of the input plan, same ids in the same list order; a completed
\* step is kept verbatim, and so is a not-completed step none of whose
\* declared dependencies failed; a not-completed step with a failed
\* dependency differs only by a note appended to its instruction.
C17_RefineKeepsStepsAndOrder ==
  (IsSome(pureCall) /\ Get(pureCall).method = "refinePlan") =>
    LET before == Get(pureCall).currentPlan.steps
        completed == Get(pureCall).completedSteps
        results == Get(pureCall).stepResults
        after == Get(pureReturn).steps
    IN /\ Len(after) = Len(before)
       /\ \A i \in 1..Len(before) :
            /\ after[i].id = before[i].id
            /\ IF before[i].id \notin completed
                    /\ FailedDependencies(before[i], results) # {}
               THEN /\ after[i] = [before[i] EXCEPT !.instruction = after[i].instruction]
                    /\ Len(after[i].instruction) > Len(before[i].instruction)
                    /\ SubSeq(after[i].instruction, 1, Len(before[i].instruction))
                         = before[i].instruction
               ELSE after[i] = before[i]

\* ------------------------------------------------------------------------
\* Properties of searchElements and findElementAt
\* ------------------------------------------------------------------------
SearchCompleted == IsSome(pureCall) /\ Get(pureCall).method = "searchElements"

\* the threshold and the result limit the call supplies, the trimmed
\* lower-case query and role
SuppliedThreshold ==
  IF Get(pureCall).options.fuzzyThreshold = None THEN Rat(6, 10)
  ELSE Get(Get(pureCall).options.fuzzyThreshold)

SuppliedMaxResults ==
  IF Get(pureCall).options.maxResults = None THEN 50
  ELSE Get(Get(pureCall).options.maxResults)

QueryLower == Trim(ToLowerCase(Get(pureCall).query))

\* the match was found by edit distance: its name does not contain the query
ByEditDistance(match) ==
  QueryLower # "" /\ Occ(ToLowerCase(Trim(match.name)), QueryLower) = {}

\* C18 as stated: every match search returns has a score >= the supplied
\* fuzzyThreshold (default 0.6) unless it qualified through the exact,
\* prefix or substring tier.
C18_ScoreAtLeastThreshold ==
  SearchCompleted =>
    \A i \in 1..Len(Get(pureReturn).matches) :
      LET match == Get(pureReturn).matches[i]
      IN \/ match.matchType \in {"exact", "contains"}
         \/ RatGeq(match.score, SuppliedThreshold)

\* C18 amended: every match search returns that qualified through the
\* edit-distance tier has a similarity >= the supplied fuzzyThreshold
\* (default 0.6), and so a score >= 0.7 times the threshold.
C18_SimilarityAtLeastThreshold ==
  SearchCompleted =>
    \A i \in 1..Len(Get(pureReturn).matches) :
      LET match == Get(pureReturn).matches[i]
          nameLower == ToLowerCase(Trim(match.name))
          distance == levenshteinDistance(nameLower, QueryLower)
          longer == IF Len(nameLower) >= Len(QueryLower) THEN Len(nameLower)
                    ELSE Len(QueryLower)
      IN ByEditDistance(match) =>
           /\ match.matchType = "fuzzy"
           /\ RatGeq(Rat(longer - distance, longer), SuppliedThreshold)
           /\ RatGeq(match.score, RatMul(Rat(7, 10), SuppliedThreshold))

\* C18 witness: with the default threshold a match found by edit distance
\* is returned whose similarity is above 0.6 and whose score is below it
C18_Witness ==
  /\ SearchCompleted
  /\ Get(pureCall).options.fuzzyThreshold = None
  /\ \E i \in 1..Len(Get(pureReturn).matches) :
       LET match == Get(pureReturn).matches[i]
       IN /\ ByEditDistance(match)
          /\ match.matchType = "fuzzy"
          /\ RatGt(Rat(6, 10), match.score)

\* every qualifying node of the tree of the call, in the depth-first order
\* in which the traversal meets them: the matches gathered when collection
\* never stops
QualifyingNodes ==
  LET role == Get(pureCall).role
  IN searchChildren(Get(pureCall).uiTree.tree, "", 0,
                    [searchLower |-> QueryLower,
                     targetRole |-> IF role = None THEN None
                                    ELSE Some(Trim(ToLowerCase(Get(role)))),
                     maxResults |-> 1000,
                     fuzzyThreshold |-> SuppliedThreshold],
                    <<>>)

\* the first 2 x maxResults of them
Gathered == SubSeq(QualifyingNodes, 1, Min(2 * SuppliedMaxResults, Len(QualifyingNodes)))

\* C19: search returns at most maxResults matches, in non-increasing score
\* order; they are the highest-scoring of the first 2 x maxResults
\* qualifying nodes met in depth-first order, so no qualifying node met
\* later is returned, whatever its score.
C19_TopOfFirstCandidates ==
  SearchCompleted =>
    LET got == Get(pureReturn).matches
        gathered == Gathered
        gotIds == {got[i].id : i \in 1..Len(got)}
        others == {k \in 1..Len(gathered) : gathered[k].id \notin gotIds}
    IN /\ Len(got) = Min(SuppliedMaxResults, Len(gathered))
       /\ Get(pureReturn).count = Len(got)
       /\ Cardinality(gotIds) = Len(got)
       /\ \A i \in 1..Len(got) :
            /\ \E k \in 1..Len(gathered) : gathered[k] = got[i]
            /\ \A j \in (i + 1)..Len(got) : RatGeq(got[i].score, got[j].score)
            /\ \A k \in others : RatGeq(got[i].score, gathered[k].score)

\* C19 witness: the tree holds a qualifying node beyond the first
\* 2 x maxResults whose score is above that of the best match returned
C19_Witness ==
  /\ SearchCompleted
  /\ Len(Get(pureReturn).matches) > 0
  /\ LET all == QualifyingNodes
     IN \E k \in (2 * SuppliedMaxResults + 1)..Len(all) :
          RatGt(all[k].score, Get(pureReturn).matches[1].score)

FindCompleted == IsSome(pureCall) /\ Get(pureCall).method = "findElementAt"

\* every element of a forest, in depth-first order
RECURSIVE DepthFirst(_)
DepthFirst(nodes) ==
  IF nodes = <<>> THEN <<>>
  ELSE <<nodes[1]>> \o DepthFirst(nodes[1].children) \o DepthFirst(Tail(nodes))

\* the rect of the element contains the point, borders included
Contains(element, x, y) ==
  /\ element.rect # None
  /\ x >= Get(element.rect).x /\ x <= Get(element.rect).x + Get(element.rect).width
  /\ y >= Get(element.rect).y /\ y <= Get(element.rect).y + Get(element.rect).height

Area(element) == Get(element.rect).width * Get(element.rect).height

\* C20: findElementAt(x, y) returns, among all the elements of the tree
\* whose rect contains the point (borders included), the one with the
\* smallest area, the first in depth-first order on ties, and null when no
\* element's rect contains the point.
C20_SmallestContainingElement ==
  FindCompleted =>
    LET x == Get(pureCall).x
        y == Get(pureCall).y
        elements == DepthFirst(Get(pureCall).uiTree.tree)
        hits == {i \in 1..Len(elements) : Contains(elements[i], x, y)}
        best == {i \in hits : \A j \in hits :
                   \/ Area(elements[i]) < Area(elements[j])
                   \/ (Area(elements[i]) = Area(elements[j]) /\ i <= j)}
    IN IF hits = {} THEN Get(pureReturn) = None
       ELSE \E i \in best : Get(pureReturn) = Some(elements[i])

\* the step the loop is at, and whether one of its dependsOn ids is missing
\* from the completed set
DependencyMissing ==
  /\ pc = "loop"
  /\ loopIdx <= Len(loopSteps)
  /\ loopSteps[loopIdx].dependsOn # None
  /\ \E k \in 1..Len(Get(loopSteps[loopIdx].dependsOn)) :
       Get(loopSteps[loopIdx].dependsOn)[k] \notin completedSteps

\* C21: a step reached while one of its dependsOn ids is not completed is
\* passed over without being executed, the loop moves on to the next step
\* and never comes back: the loop position only grows, and a step is only
\* executed at the loop position.  So the step is never executed later in
\* the call, even if its dependencies complete afterwards.
C21_SkippedStepIsDropped ==
  [][/\ (DependencyMissing =>
           /\ executions' = executions
           /\ completedSteps' = completedSteps
           /\ loopIdx' = loopIdx + 1
           /\ loopSteps' = loopSteps)
     /\ (pc = "loop" => loopIdx' >= loopIdx /\ loopSteps' = loopSteps)
     /\ (StepExecuted =>
           /\ LastExecution.stepId = loopSteps[loopIdx].id
           /\ loopIdx' = loopIdx + 1)]_vars

\* C21 witness: the call returned; a step that depends on the step after it
\* was not executed although that later step was executed and completed
C21_Witness ==
  /\ pc = "done"
  /\ \E k \in 1..(Len(loopSteps) - 1) :
       /\ loopSteps[k].dependsOn = Some(<<loopSteps[k + 1].id>>)
       /\ loopSteps[k + 1].id \in completedSteps
       /\ \A i \in 1..Len(executions) : executions[i].stepId # loopSteps[k].id
       /\ \E i \in 1..Len(executions) : executions[i].stepId = loopSteps[k + 1].id

\* same type and centers less than 20px apart, absent centers at the origin
WithinTwentySameType(p, c) ==
  LET px == IF p.center = None THEN 0 ELSE Get(p.center).x
      py == IF p.center = None THEN 0 ELSE Get(p.center).y
      cx == IF c.center = None THEN 0 ELSE Get(c.center).x
      cy == IF c.center = None THEN 0 ELSE Get(c.center).y
  IN p.type = c.type /\ (px - cx) * (px - cx) + (py - cy) * (py - cy) < 400

\* C22: text_changed is reported only for a current element and a previous
\* element of the same type within 20px of it whose text differs, the
\* change giving that previous element's text as before.
C22_TextChangeMatchesSameType ==
  [][(DetectCompleted /\ IsSome(previousState)) =>
       LET prev == Get(previousState).elements
           changes == Get(detectReturn').changes
       IN \A i \in 1..Len(changes) :
            changes[i].type = "text_changed" =>
              \E j \in 1..Len(prev) :
                /\ WithinTwentySameType(prev[j], changes[i].element)
                /\ prev[j].text # changes[i].element.text
                /\ changes[i].before = prev[j].text]_vars

\* C23: createAgentContext('planner', ctx) returns the full, unfiltered
\* history, files and accumulatedKnowledge of ctx, whatever their length.
C23_PlannerGetsFullContext ==
  (IsSome(pureCall) /\ Get(pureCall).method = "createAgentContext"
     /\ Get(pureCall).agentType = "planner") =>
    /\ Get(pureReturn).history = Get(pureCall).fullContext.history
    /\ Get(pureReturn).files = Get(pureCall).fullContext.files
    /\ Get(pureReturn).accumulatedKnowledge
         = Get(pureCall).fullContext.accumulatedKnowledge

\* the tail the history is cut to elsewhere (createAgentContext, slice(-5))
HistoryTail == 5

ExecutedIds(execs) == {execs[i].stepId : i \in 1..Len(execs)}

\* the loop is at a step all of whose dependsOn ids have been executed, and
\* neither budget is used up
ReadyToRun ==
  /\ pc = "loop"
  /\ loopIdx <= Len(loopSteps)
  /\ (loopSteps[loopIdx].dependsOn # None =>
        \A k \in 1..Len(Get(loopSteps[loopIdx].dependsOn)) :
          Get(loopSteps[loopIdx].dependsOn)[k] \in ExecutedIds(executions))
  /\ Len(executions) < maxSteps
  /\ totalTokens < maxTokens

\* C25: a step's id joins the completed set when the step has executed,
\* whatever its result, so the completed set is the set of executed steps;
\* a step whose dependencies have all executed, even with a 'failure', is
\* executed when the loop reaches it unless a budget stops the loop.
C25_DependenciesGateOnHavingRun ==
  [][/\ completedSteps' = ExecutedIds(executions')
     /\ (ReadyToRun =>
           /\ StepExecuted
           /\ LastExecution.stepId = loopSteps[loopIdx].id)]_vars

\* C25 witness: a step was executed whose only dependency had been recorded
\* as a 'failure'
C25_Witness ==
  \E i \in 1..Len(executions) : \E j \in (i + 1)..Len(executions) :
    /\ executions[i].result = "failure"
    /\ \E k \in 1..Len(loopSteps) :
         /\ loopSteps[k].id = executions[j].stepId
         /\ loopSteps[k].dependsOn = Some(<<executions[i].stepId>>)

\* the agents for which executeStep has no case
UnhandledAgents == {"code", "vision"}

\* the execution recorded for a step of an agent without a case
UnknownAgentExecution(id, agent, instruction) ==
  [stepId |-> id, agent |-> agent, instruction |-> instruction,
   result |-> "failure",
   output |-> "Error: Unknown agent type: " \o agent,
   tokensUsed |-> 50]

\* C26: every executed step whose agent is 'code' or 'vision' is recorded as
\* a 'failure' with the unknown-agent-type error and 50 tokens, and no
\* executor's outcome is awaited for it; a processTask result whose
\* executions hold such a step has success = false; quickExecute on an intent
\* routed to code or vision returns success = false.
C26_CodeAndVisionStepsFail ==
  [][/\ (StepExecuted /\ loopSteps[loopIdx].agent \in UnhandledAgents) =>
          /\ LastExecution = UnknownAgentExecution(loopSteps[loopIdx].id,
                                                   loopSteps[loopIdx].agent,
                                                   loopSteps[loopIdx].instruction)
          /\ Get(executorOutcome') \notin ExecOutcomes
     /\ (taskResult' # None
         /\ \E i \in 1..Len(executions') : executions'[i].agent \in UnhandledAgents) =>
          ~Get(taskResult').success
     /\ (pc' = "quick"
         /\ routeTask(Get(pureCall').intent).primaryAgent \in UnhandledAgents) =>
          /\ Get(pureCall').switched \notin ExecOutcomes
          /\ Get(pureReturn') =
               [success |-> FALSE,
                output |-> "Error: Unknown agent type: "
                             \o routeTask(Get(pureCall').intent).primaryAgent,
                tokens |-> 50]]_vars

\* C26 witness: a processTask run returned after executing the terminal,
\* code and terminal steps of a code-edit plan
C26_Witness ==
  /\ pc = "done"
  /\ Len(executions) >= 3
  /\ executions[1].agent = "terminal"
  /\ executions[2].agent = "code"
  /\ executions[3].agent = "terminal"
  /\ CodeEditGoal(goal)
  /\ plannerCalled
  /\ ~Get(taskResult).success

\* no trigger of any agent type occurs in the goal
NoKeyword(g) ==
  \A type \in AgentTypes : KeywordHits(type, ToLowerCase(g)) = 0

\* C27: every executed planner step is recorded as 'success' with 100
\* tokens and empty output, and no executor's outcome is awaited for it;
\* quickExecute on an intent that matches no routing keyword returns
\* success = true, and so does processTask with requirePlan = false on such
\* a goal.
C27_PlannerStepsSucceed ==
  [][/\ (StepExecuted /\ loopSteps[loopIdx].agent = "planner") =>
          /\ LastExecution =
               [stepId |-> loopSteps[loopIdx].id, agent |-> "planner",
                instruction |-> loopSteps[loopIdx].instruction,
                result |-> "success", output |-> "", tokensUsed |-> 100]
          /\ Get(executorOutcome') \notin ExecOutcomes
     /\ (pc' = "quick" /\ NoKeyword(Get(pureCall').intent)) =>
          /\ Get(pureCall').switched \notin ExecOutcomes
          /\ Get(pureReturn') = [success |-> TRUE, output |-> "", tokens |-> 100]
     /\ (taskResult' # None /\ taskOptions' .requirePlan = Some(FALSE)
         /\ NoKeyword(goal')) =>
          Get(taskResult').success]_vars

\* C27 witness: processTask with requirePlan = false on a goal without
\* keywords returned after its single planner step
C27_Witness ==
  /\ pc = "done"
  /\ taskOptions.requirePlan = Some(FALSE)
  /\ NoKeyword(goal)
  /\ Len(executions) = 1
  /\ executions[1].agent = "planner"
  /\ Get(taskResult).success

\* the ids of the executions recorded as a failure
FailedIds(execs) ==
  {execs[i].stepId : i \in {j \in 1..Len(execs) : execs[j].result = "failure"}}

\* a step of the plan without maxRetries has a failed execution
CriticalFailure(p, execs) ==
  \E k \in 1..Len(p.steps) :
    /\ p.steps[k].id \in FailedIds(execs)
    /\ (p.steps[k].maxRetries = None \/ p.steps[k].maxRetries = Some(0))

\* the cautionary note for the dependencies ds of which those in failed failed
CautionNote(ds, failed) ==
  LET hit(d) == d \in failed
  IN " (Note: Step " \o JoinNums(SelectSeq(ds, hit)) \o " had issues, proceed with caution)"

\* C28: once a step without maxRetries has failed, the plan is refined after
\* that step and after every later executed step, each time from the plan
\* refined before: every step of the plan not yet completed keeps its place
\* among the remaining steps and, when it depends on a failed step, has one
\* more cautionary note appended to the instruction it carried before.
C28_NotesAccumulateAcrossReplans ==
  [][(StepExecuted /\ CriticalFailure(plan, executions')) =>
       /\ replanned'
       /\ Len(plan'.steps) = Len(plan.steps)
       /\ LET notDone(st) == st.id \notin ExecutedIds(executions')
              before == SelectSeq(plan.steps, notDone)
              after == SelectSeq(plan'.steps, notDone)
          IN /\ Len(after) = Len(before)
             /\ \A k \in 1..Len(before) :
                  /\ after[k].id = before[k].id
                  /\ after[k].instruction =
                       IF before[k].dependsOn # None
                          /\ \E d \in Range(Get(before[k].dependsOn)) :
                               d \in FailedIds(executions')
                       THEN before[k].instruction
                              \o CautionNote(Get(before[k].dependsOn),
                                             FailedIds(executions'))
                       ELSE before[k].instruction]_vars

\* C28 witness: the returned plan ends with a verification step whose
\* instruction carries the note more than once
C28_Witness ==
  /\ pc = "done"
  /\ plannerCalled
  /\ plan.steps[Len(plan.steps)].agent = "planner"
  /\ Cardinality(Occ(Get(taskResult).plan.steps[Len(plan.steps)].instruction,
                     "(Note: Step ")) >= 2

\* the positions of a call whose fetch is in flight
InFlight == {"primary", "wmctrl"}

\* C29: the slot has no in-flight guard. A call that misses the cache starts
\* its own fetch whatever the other calls are doing; the result of every
\* completed fetch is stored with a fresh TTL, whatever the slot holds, so the
\* fetch that completes last owns the slot; clearCache leaves the fetches in
\* flight alone, so a fetch started before it refills the slot afterwards.
C29_NoInFlightGuard ==
  [][\A c \in Callers :
       /\ (callPc[c] = "idle" /\ callPc'[c] # "idle"
           /\ ~(callUseCache'[c] /\ cache # None /\ Get(cache).expiresAt > now)) =>
            callPc'[c] = "primary"
       /\ (callPc[c] \in InFlight /\ callPc'[c] = "returned") =>
            cache' = Some([result |-> Get(callResult'[c]),
                           expiresAt |-> now + CACHE_TTL_MS])
       /\ (cache # None /\ cache' = None) =>
            /\ callPc' = callPc
            /\ callResult' = callResult]_vars

\* C29 witness: a call with useCache = true is served the tree of a fetch
\* that was in flight when clearCache ran, while a second fetch overlaps
C29_Witness ==
  \E a \in Callers, b \in Callers :
    /\ a # b
    /\ callPc[a] = "returnedCached"
    /\ callUseCache[a]
    /\ cacheTrace.slotFromClearedFetch
    /\ callResult[a] = Some(Get(cache).result)
    /\ callPc[b] \in InFlight

\* a poll of waitForStabilization completes in this transition
PollCompleted == waitPc = "polling" /\ waitPc' # "polling"

\* the detector failed in the poll that completed last
LatestPollFailed(trace) ==
  /\ trace.failedPoll # None
  /\ Get(trace.failedPoll).at = Get(trace.lastPoll)

\* one change of the given type per element, in order
AllReported(type, elements) ==
  [i \in 1..Len(elements) |-> [type |-> type, element |-> elements[i]]]

\* C30: a detector failure counts as an empty frame. When the baseline holds
\* elements and the detector fails, every element of the baseline is reported
\* as element_removed, hasSignificantChange is true and the baseline becomes
\* the empty list; the next successful detection then reports every element
\* it sees as element_added; a waitForStabilization in progress restarts its
\* quiet period at both polls.
C30_DetectorFailureIsEmptyFrame ==
  [][/\ (PollCompleted /\ LatestPollFailed(waitTrace')
         /\ previousState # None /\ Get(previousState).elements # <<>>) =>
          /\ Get(detectReturn').changes =
               AllReported("element_removed", Get(previousState).elements)
          /\ Get(detectReturn').hasSignificantChange
          /\ Get(previousState').elements = <<>>
          /\ lastChangeTime' = now'
     /\ (PollCompleted /\ waitTrace.lastPoll # None /\ LatestPollFailed(waitTrace)
         /\ ~LatestPollFailed(waitTrace') /\ Get(detected').elements # <<>>) =>
          /\ Get(detectReturn').changes =
               AllReported("element_added", Get(detected').elements)
          /\ Get(detectReturn').hasSignificantChange
          /\ lastChangeTime' = now']_vars

\* C30 witness: the poll after a failed one, the failure having emptied a
\* baseline with elements, reports what it sees as added and restarts the
\* quiet period
C30_Witness ==
  /\ waitPc = "sleeping"
  /\ waitTrace.failedPoll # None
  /\ Get(waitTrace.failedPoll).baseline > 0
  /\ Get(waitTrace.failedPoll).at < Get(waitTrace.lastPoll)
  /\ Get(detectReturn).changes # <<>>
  /\ Get(detectReturn).changes = AllReported("element_added", Get(previousState).elements)
  /\ lastChangeTime = now

====
